---- MODULE Spec2Model ----
(***************************************************************************)
(* Model of nextjs-turnstile: the <Turnstile> widget lifecycle controller  *)
(* (components/Turnstile.tsx), the script loader (utils) and the           *)
(* server-side token verifier (utils/verifyTurnstile.ts).                  *)
(*                                                                         *)
(* Three specifications share the module:                                  *)
(*   Spec        one <Turnstile> component driven by React and Cloudflare  *)
(*   SpecLoader  concurrent callers of loadTurnstileScript                 *)
(*   SpecVerify  calls of verifyTurnstile                                  *)
(***************************************************************************)
EXTENDS Integers, Sequences, FiniteSets, TLC

\* ------------------------------------------------------------------------
\* Bounds
\* ------------------------------------------------------------------------
MaxMounts == 3
MaxRemoves == 2
NumConfigs == 2
NumCallbacks == 2
MaxExcess == 2
MaxCalls == 3
MaxInstances == 2

Configs == 1..NumConfigs
Callbacks == 1..NumCallbacks
WidgetIds == 1..MaxMounts

\* `undefined` in widgetIdRef
NoId == 0

\* ------------------------------------------------------------------------
\* State of one <Turnstile> component and of its environment
\* ------------------------------------------------------------------------
VARIABLES
  widgetIdRef,      \* widgetIdRef.current (NoId = undefined)
  hasRenderedRef,   \* hasRenderedRef.current
  isMountedRef,     \* isMountedRef.current
  isReady,          \* useState isReady
  callbackRefs,     \* onSuccessRef.current, onErrorRef.current, ... (one bundle)
  containerRef,     \* containerRef.current # null
  inDocument,       \* document.body.contains(container)
  iframes,          \* widget ids whose iframe is a child of the container
  selMatch,         \* the widget iframe matches 'iframe[src*="turnstile"], iframe[allow*="cross-origin"]'
  apiPresent,       \* window.turnstile is defined
  scriptPromise,    \* window.__turnstile_load_promise__: "none" | "pending" | "resolved" | "rejected"
  conts,            \* .then/.catch continuations registered on the load promise, in order
  live,             \* ids of the widgets rendered by the adapter and not removed
  phase,            \* React: "disconnected" | "connected" | "detached" | "unmounted"
  hasCleanup,       \* the last effect run returned a cleanup function
  config,           \* current configuration props (effect dependency list)
  effectCfg,        \* configuration of the last effect run (0 before the first)
  callbacks,        \* current callback props
  hist              \* history of adapter calls and callback dispatches

\* State of one verifyTurnstile call
VARIABLES
  vPc,              \* "idle" | "fetching" | "done"
  vVariant,         \* "result": utils/verifyTurnstile.ts; "throwing": the TurnstileError variant
  vIn,              \* token and options of the call, and the environment
  vBody,            \* JSON body of the POST
  vFetches,         \* fetch calls issued
  vTimer,           \* delay of the armed abort timer in ms, 0 when none
  vResp,            \* what the endpoint answered
  vResult           \* what the call returned or threw

vvars == <<vPc, vVariant, vIn, vBody, vFetches, vTimer, vResp, vResult>>

\* State of the document around loadTurnstileScript
VARIABLES
  lImpl,            \* "explicitOnly": loadTurnstileScript(); "byMode": loadTurnstileScript(mode)
  lHasWindow,       \* typeof window !== "undefined"
  lApi,             \* window.turnstile is defined
  lCache,           \* the cached promise of each mode (NoPromise when none)
  lPromises,        \* the promises created so far
  lScripts,         \* the Turnstile script elements of the document
  lReturned         \* the promise each call returned, in call order

lvars == <<lImpl, lHasWindow, lApi, lCache, lPromises, lScripts, lReturned>>

\* State shared by the <TurnstileExplicit> and <TurnstileImplicit> components
VARIABLES
  usedContainerIds,        \* the module-level Set of container ids in use
  usedResponseFieldNames,  \* the module-level Set of response field names in use
  instances,               \* the component instances of the page
  regStale,                \* kinds of the cleaned-up effect runs whose continuation still waits
  regLast                  \* the last effect, cleanup or continuation that ran

rvars == <<usedContainerIds, usedResponseFieldNames, instances, regStale,
           regLast>>

\* State of one call of an imperative operation
VARIABLES
  hCall,                   \* the last call: operation, environment, what it did
  ipCall                   \* the last IP resolution: sources and result

pvars == <<hCall, ipCall>>

wvars == <<widgetIdRef, hasRenderedRef, isMountedRef, isReady, callbackRefs,
           containerRef, inDocument, iframes, selMatch, apiPresent,
           scriptPromise, conts, live, phase, hasCleanup, config, effectCfg,
           callbacks, hist>>

vars == <<wvars, lvars, vvars, rvars, pvars>>

InitHist ==
  [ mounts |-> 0,            \* mount passes (runs of the effect body)
    renderCalls |-> 0,       \* turnstile.render calls
    removeCalls |-> 0,       \* turnstile.remove calls
    lastRemoved |-> NoId,    \* argument of the last turnstile.remove call
    renderOnOccupied |-> FALSE, \* render was called with an iframe in the container or an id cached
    lastDispatch |-> [kind |-> "none", to |-> 0, supplied |-> 0,
                      cause |-> "event", fate |-> "returned"],
    lastRender |-> "none",   \* outcome of the last turnstile.render call
    exc |-> "none",          \* exception propagating inside the running handler
    remounted |-> FALSE,     \* a mount pass ran while an id was cached or an iframe present
    imperative |-> FALSE,    \* the imperative remove() was called
    adapterFailed |-> FALSE, \* render returned no id or threw, or remove threw
    rendersSinceChange |-> 0,   \* render calls since the last configuration change over a cached id
    cleanSinceChange |-> FALSE, \* ... and nothing else has disturbed the widget since
    removed |-> FALSE,       \* the imperative remove() destroyed the widget
    renderAfterRemoved |-> FALSE, \* turnstile.render was called after that
    opAfterRemoved |-> FALSE ]    \* turnstile.reset / execute / getResponse was called after that

\* The world as one record, so that a handler can be composed of its steps.
W ==
  [ widgetIdRef |-> widgetIdRef, hasRenderedRef |-> hasRenderedRef,
    isMountedRef |-> isMountedRef, isReady |-> isReady,
    callbackRefs |-> callbackRefs, containerRef |-> containerRef,
    inDocument |-> inDocument, iframes |-> iframes, selMatch |-> selMatch,
    apiPresent |-> apiPresent, scriptPromise |-> scriptPromise,
    conts |-> conts, live |-> live, phase |-> phase,
    hasCleanup |-> hasCleanup, config |-> config, effectCfg |-> effectCfg,
    callbacks |-> callbacks, hist |-> hist ]

Becomes(s) ==
  /\ widgetIdRef' = s.widgetIdRef
  /\ hasRenderedRef' = s.hasRenderedRef
  /\ isMountedRef' = s.isMountedRef
  /\ isReady' = s.isReady
  /\ callbackRefs' = s.callbackRefs
  /\ containerRef' = s.containerRef
  /\ inDocument' = s.inDocument
  /\ iframes' = s.iframes
  /\ selMatch' = s.selMatch
  /\ apiPresent' = s.apiPresent
  /\ scriptPromise' = s.scriptPromise
  /\ conts' = s.conts
  /\ live' = s.live
  /\ phase' = s.phase
  /\ hasCleanup' = s.hasCleanup
  /\ config' = s.config
  /\ effectCfg' = s.effectCfg
  /\ callbacks' = s.callbacks
  /\ hist' = s.hist
  /\ UNCHANGED <<lvars, vvars, rvars, pvars>>

WBase ==
  /\ widgetIdRef = NoId
  /\ hasRenderedRef = FALSE
  /\ isMountedRef = TRUE
  /\ isReady = FALSE
  /\ callbacks = 1
  /\ callbackRefs = callbacks
  /\ containerRef = TRUE
  /\ inDocument = TRUE
  /\ iframes = {}
  /\ scriptPromise = "none"
  /\ conts = <<>>
  /\ live = {}
  /\ phase = "disconnected"
  /\ hasCleanup = FALSE
  /\ config = 1
  /\ effectCfg = 0
  /\ hist = InitHist

WInit == WBase /\ selMatch \in BOOLEAN /\ apiPresent \in BOOLEAN

WIdle == WBase /\ selMatch = FALSE /\ apiPresent = FALSE

\* ------------------------------------------------------------------------
\* loadTurnstileScript
\* ------------------------------------------------------------------------
SCRIPT_LOAD_TIMEOUT == 10000
SCRIPT_POLL_INTERVAL == 100

NoPromise == 0
AllModes == {"implicit", "explicit"}

\* The modes a caller can ask for
Modes(impl) == IF impl = "explicitOnly" THEN {"explicit"} ELSE AllModes

L ==
  [api |-> lApi, cache |-> lCache, promises |-> lPromises,
   scripts |-> lScripts, returned |-> lReturned]

\* new Promise(...): kind is the branch its executor took
NewPromise(mode, kind) ==
  [mode |-> mode, kind |-> kind, status |-> "pending", error |-> "none",
   apiAtResolve |-> FALSE, sawApi |-> FALSE, sawScript |-> FALSE,
   elapsed |-> 0, timer |-> FALSE, callback |-> FALSE]

\* resolve(): a settled promise stays as it is
Resolve(l, p) ==
  IF l.promises[p].status # "pending" THEN l
  ELSE [l EXCEPT !.promises[p].status = "resolved",
                 !.promises[p].apiAtResolve = l.api]

\* reject(new Error(...))
Reject(l, p, err) ==
  IF l.promises[p].status # "pending" THEN l
  ELSE [l EXCEPT !.promises[p].status = "rejected", !.promises[p].error = err]

\* cleanup(): clearTimeout(timeoutId); delete window[callbackName]
Cleanup(l, p) ==
  [l EXCEPT !.promises[p].timer = FALSE, !.promises[p].callback = FALSE]

\* document.querySelector(`script[src^="${TURNSTILE_SCRIPT_URL}"]`)
ExistingScript(l) == Len(l.scripts) > 0

\* The executor of loadTurnstileScript(), for the promise with index p
ExecutorExplicitOnly(l, p, mode) ==
  IF l.api
  THEN [l EXCEPT !.promises = Append(@, [NewPromise(mode, "immediate") EXCEPT
                     !.status = "resolved", !.apiAtResolve = TRUE, !.sawApi = TRUE])]
  ELSE IF ExistingScript(l)
  THEN [l EXCEPT !.promises = Append(@, [NewPromise(mode, "poll") EXCEPT
                     !.sawScript = TRUE])]
  ELSE [l EXCEPT !.promises = Append(@, [NewPromise(mode, "inject") EXCEPT
                     !.timer = TRUE, !.callback = TRUE]),
                 !.scripts = Append(@, [by |-> p, signal |-> "callback",
                                        state |-> "loading"])]

\* The executor of loadTurnstileScript(mode)
ExecutorByMode(l, p, mode) ==
  IF ExistingScript(l)
  THEN [l EXCEPT !.promises = Append(@, [NewPromise(mode, "poll") EXCEPT
                     !.sawApi = l.api, !.sawScript = TRUE])]
  ELSE [l EXCEPT !.promises = Append(@, [NewPromise(mode, "inject") EXCEPT
                     !.sawApi = l.api, !.callback = (mode = "explicit")]),
                 !.scripts = Append(@, [by |-> p,
                     signal |-> IF mode = "explicit" THEN "callback" ELSE "onload",
                     state |-> "loading"])]

Executor(impl, l, p, mode) ==
  IF impl = "explicitOnly" THEN ExecutorExplicitOnly(l, p, mode)
  ELSE ExecutorByMode(l, p, mode)

\* A variant of CachedPromise that never finds the cached promise
CachedPromiseIgnored(l, mode) == NoPromise

\* window[SCRIPT_PROMISE_KEY] / window[cacheKey]
CachedPromise(l, mode) == l.cache[mode]

\* One call of loadTurnstileScript; the promise it returns is appended to
\* l.returned
LoadTurnstileScriptCall(impl, hasWindow, l, mode) ==
  LET p == Len(l.promises) + 1
  IN IF ~hasWindow
     THEN [l EXCEPT !.promises = Append(@, [NewPromise(mode, "ssr") EXCEPT
                        !.status = "resolved"]),
                    !.returned = Append(@, p)]
     ELSE IF CachedPromise(l, mode) # NoPromise
     THEN [l EXCEPT !.returned = Append(@, CachedPromise(l, mode))]
     ELSE [Executor(impl, l, p, mode) EXCEPT !.cache[mode] = p,
                                             !.returned = Append(@, p)]

\* The onload callback named in the script URL, or script.onload
OnloadSignal(impl, l, i) ==
  LET sc == l.scripts[i]
      p == sc.by
  IN IF p = NoPromise THEN l
     ELSE IF sc.signal = "onload" THEN Resolve(l, p)
     ELSE IF ~l.promises[p].callback THEN l
     ELSE IF impl = "explicitOnly"
     THEN (IF l.api THEN Resolve(Cleanup(l, p), p)
           ELSE Reject(Cleanup(l, p), p, "turnstile-object-not-found"))
     ELSE [Resolve(l, p) EXCEPT !.promises[p].callback = FALSE]

\* script.onerror
OnScriptError(impl, l, i) ==
  LET p == l.scripts[i].by
  IN IF p = NoPromise THEN l
     ELSE IF impl = "explicitOnly" THEN Reject(Cleanup(l, p), p, "failed-to-load")
     ELSE Reject(l, p, "failed-to-load")

\* The setTimeout callback of the injecting branch
OnLoadTimeout(l, p) == Reject(Cleanup(l, p), p, "load-timeout")

\* The setInterval callback of the polling branch
OnPollInterval(impl, l, p) ==
  IF impl = "explicitOnly"
  THEN LET l1 == [l EXCEPT !.promises[p].elapsed = @ + SCRIPT_POLL_INTERVAL]
       IN IF l1.api THEN Resolve(l1, p)
          ELSE IF l1.promises[p].elapsed >= SCRIPT_LOAD_TIMEOUT
          THEN Reject(l1, p, "poll-timeout")
          ELSE l1
  ELSE IF l.api THEN Resolve(l, p) ELSE l

LBecomes(l) ==
  /\ lApi' = l.api
  /\ lCache' = l.cache
  /\ lPromises' = l.promises
  /\ lScripts' = l.scripts
  /\ lReturned' = l.returned
  /\ UNCHANGED <<lImpl, lHasWindow, wvars, vvars, rvars, pvars>>

\* No loader activity: no window, nothing cached
LIdle ==
  /\ lImpl = "explicitOnly"
  /\ lHasWindow = FALSE
  /\ lApi = FALSE
  /\ lCache = [m \in AllModes |-> NoPromise]
  /\ lPromises = <<>>
  /\ lScripts = <<>>
  /\ lReturned = <<>>

\* A page before the first call: the API object and a script tag written by
\* someone else may or may not be there already
LInit ==
  /\ lImpl \in {"explicitOnly", "byMode"}
  /\ lHasWindow \in BOOLEAN
  /\ lApi \in BOOLEAN
  /\ lCache = [m \in AllModes |-> NoPromise]
  /\ lPromises = <<>>
  /\ lScripts \in {<<>>, <<[by |-> NoPromise, signal |-> "none", state |-> "loading"]>>,
                   <<[by |-> NoPromise, signal |-> "none", state |-> "loaded"]>>}
  /\ lHasWindow = FALSE => (lApi = FALSE /\ lScripts = <<>>)
  /\ lReturned = <<>>

\* A caller calls loadTurnstileScript
LoadCall ==
  /\ Len(lReturned) < MaxCalls
  /\ \E mode \in Modes(lImpl) :
       LBecomes(LoadTurnstileScriptCall(lImpl, lHasWindow, L, mode))

\* A script element finishes loading and runs; it normally defines
\* window.turnstile, then signals its load
ScriptLoads ==
  \E i \in DOMAIN lScripts, definesApi \in BOOLEAN :
    /\ lScripts[i].state = "loading"
    /\ LBecomes(OnloadSignal(lImpl,
                  [L EXCEPT !.scripts[i].state = "loaded",
                            !.api = @ \/ definesApi], i))

\* A script element fails to load
ScriptFails ==
  \E i \in DOMAIN lScripts :
    /\ lScripts[i].state = "loading"
    /\ LBecomes(OnScriptError(lImpl, [L EXCEPT !.scripts[i].state = "failed"], i))

\* The load timeout of an injecting call expires
LoadTimeout ==
  \E p \in DOMAIN lPromises :
    /\ lPromises[p].timer
    /\ LBecomes(OnLoadTimeout(L, p))

\* The polling interval of a polling call fires
PollInterval ==
  \E p \in DOMAIN lPromises :
    /\ lPromises[p].kind = "poll"
    /\ lPromises[p].status = "pending"
    /\ LBecomes(OnPollInterval(lImpl, L, p))

LNext ==
  \/ LoadCall
  \/ ScriptLoads
  \/ ScriptFails
  \/ LoadTimeout
  \/ PollInterval

\* ------------------------------------------------------------------------
\* verifyTurnstile
\* ------------------------------------------------------------------------
TOKEN_MAX_LENGTH == 2048
DEFAULT_TIMEOUT_MS == 10000

\* A token is a string of some length, or a value of another type
TokenLengths == {0, 1} \cup ((TOKEN_MAX_LENGTH - 1)..(TOKEN_MAX_LENGTH + MaxExcess))
NonStringTypes == {"undefined", "null", "zero", "number", "object"}
Tokens ==
  {[type |-> "string", len |-> n] : n \in TokenLengths}
    \cup {[type |-> ty, len |-> 0] : ty \in NonStringTypes}

\* !token
Falsy(tok) ==
  \/ tok.type \in {"undefined", "null", "zero"}
  \/ tok.type = "string" /\ tok.len = 0

\* An optional string (secret key, ...): "undefined", "" or a value
OptStrings == {"undefined", "empty", "set"}

\* a ?? b
Coalesce(a, b) == IF a = "undefined" THEN b ELSE a

NoResult ==
  [kind |-> "none", full |-> FALSE, success |-> FALSE, hasCodes |-> FALSE,
   codes |-> <<>>, error |-> "none"]

\* return true / return false
RetBool(b) == [NoResult EXCEPT !.kind = "return", !.success = b]

\* return { success: false, "error-codes": [code] }
RetFailure(codes) ==
  [NoResult EXCEPT !.kind = "return", !.full = TRUE, !.hasCodes = TRUE,
                   !.codes = codes]

\* return the response body as received
RetBody(resp) ==
  [NoResult EXCEPT !.kind = "return", !.full = TRUE, !.success = resp.success,
                   !.hasCodes = resp.hasCodes, !.codes = resp.codes]

\* throw new TurnstileError(codes)
ThrowTurnstileError(codes) ==
  [NoResult EXCEPT !.kind = "throw", !.error = "TurnstileError",
                   !.hasCodes = TRUE, !.codes = codes]

\* throw new Error(...) / rethrow
ThrowError(what) == [NoResult EXCEPT !.kind = "throw", !.error = what]

\* A variant of Failure that throws where boolean mode returns false
FailureBooleanThrows(variant, in, resultCode, thrownCode) ==
  IF variant = "throwing" THEN ThrowTurnstileError(<<thrownCode>>)
  ELSE IF in.returnFullResponse THEN RetFailure(<<resultCode>>)
  ELSE ThrowTurnstileError(<<resultCode>>)

\* A verification failure: a result in the "result" variant (false, or the
\* failure object with returnFullResponse), a TurnstileError in the other
Failure(variant, in, resultCode, thrownCode) ==
  IF variant = "throwing" THEN ThrowTurnstileError(<<thrownCode>>)
  ELSE IF in.returnFullResponse THEN RetFailure(<<resultCode>>)
  ELSE RetBool(FALSE)

NoBody == [sent |-> FALSE, remoteip |-> "none", idem |-> "none"]
NoResp ==
  [kind |-> "none", success |-> FALSE, hasCodes |-> FALSE, codes |-> <<>>,
   action |-> "none", hostname |-> "none", hasTs |-> FALSE, age |-> 0]

\* A variant of TokenFormatInvalid without the typeof test
TokenFormatInvalidFalsyOnly(tok) == Falsy(tok)

\* if (!token || typeof token !== "string")
TokenFormatInvalid(tok) == Falsy(tok) \/ tok.type # "string"

\* A variant of TokenTooLong that also rejects the maximum length
TokenTooLongInclusive(tok) == tok.len >= TOKEN_MAX_LENGTH

\* if (token.length > TOKEN_MAX_LENGTH)
TokenTooLong(tok) == tok.len > TOKEN_MAX_LENGTH

\* A variant of SecretMissing that only detects an empty secret
SecretMissingEmptyOnly(in) == Coalesce(in.secretKey, in.envSecret) = "empty"

\* const secret = options.secretKey ?? process.env.TURNSTILE_SECRET_KEY; !secret
SecretMissing(in) == Coalesce(in.secretKey, in.envSecret) \in {"undefined", "empty"}

\* The request body: remoteip when an ip was resolved, idempotency_key from
\* the caller ("result" variant) or from crypto.randomUUID ("throwing" variant)
RequestBody(variant, in) ==
  [sent |-> TRUE,
   remoteip |-> in.ip,
   idem |-> IF variant = "result"
            THEN (IF in.idempotencyKey THEN "caller" ELSE "none")
            ELSE (IF in.uuidAvailable THEN "generated" ELSE "none")]

\* The abort timer: options.timeout ? setTimeout(...) : undefined in the
\* "result" variant, options.timeout ?? DEFAULT_TIMEOUT_MS in the other
AbortTimer(variant, in) ==
  IF variant = "result"
  THEN (IF in.hasTimeout THEN in.timeout ELSE 0)
  ELSE (IF in.hasTimeout THEN in.timeout ELSE DEFAULT_TIMEOUT_MS)

\* The call up to the fetch: the outcome is a result, or the request sent
VerifyStart(variant, in) ==
  IF TokenFormatInvalid(in.token)
  THEN [pc |-> "done", body |-> NoBody, timer |-> 0, fetches |-> 0,
        result |-> Failure(variant, in, "invalid-token-format", "missing-input-response")]
  ELSE IF TokenTooLong(in.token)
  THEN [pc |-> "done", body |-> NoBody, timer |-> 0, fetches |-> 0,
        result |-> Failure(variant, in, "token-too-long", "invalid-input-response")]
  ELSE IF SecretMissing(in)
  THEN [pc |-> "done", body |-> NoBody, timer |-> 0, fetches |-> 0,
        result |-> ThrowError("secret-key-not-provided")]
  ELSE [pc |-> "fetching", body |-> RequestBody(variant, in),
        timer |-> AbortTimer(variant, in), fetches |-> 1, result |-> NoResult]

\* A variant of ActionMismatch that accepts every action
ActionMismatchIgnored(variant, in, resp) == FALSE

\* The policy checks applied to a success response
ActionMismatch(variant, in, resp) ==
  IF variant = "result"
  THEN in.action # "undefined" /\ in.action # "empty" /\ resp.action # in.action
  ELSE in.action # "undefined" /\ resp.action # in.action

HostnameMismatch(variant, in, resp) ==
  IF variant = "result"
  THEN in.hostname # "undefined" /\ in.hostname # "empty" /\ resp.hostname # in.hostname
  ELSE in.hostname # "undefined" /\ resp.hostname # in.hostname

\* A variant of TokenTooOld that also rejects an age equal to the maximum
TokenTooOldInclusive(variant, in, resp) ==
  /\ variant = "result"
  /\ in.hasMaxTokenAge
  /\ resp.hasTs
  /\ resp.age >= in.maxTokenAge

\* ageSeconds > options.maxTokenAge; the age of a missing challenge_ts is NaN
TokenTooOld(variant, in, resp) ==
  /\ variant = "result"
  /\ in.hasMaxTokenAge
  /\ resp.hasTs
  /\ resp.age > in.maxTokenAge

\* A variant of HttpNotOk that never looks at the HTTP status
HttpNotOkIgnored(resp) == FALSE

\* if (!res.ok)
HttpNotOk(resp) == resp.kind = "http-error"

\* A variant of VerifyResponse that checks the hostname before the action
VerifyResponseHostnameFirst(variant, in, resp) ==
  IF HttpNotOk(resp) THEN ThrowError("request-failed")
  ELSE IF ~resp.success
  THEN IF variant = "throwing"
       THEN ThrowTurnstileError(IF resp.hasCodes THEN resp.codes ELSE <<"unknown-error">>)
       ELSE IF in.returnFullResponse THEN RetBody(resp) ELSE RetBool(FALSE)
  ELSE IF HostnameMismatch(variant, in, resp)
  THEN Failure(variant, in, "hostname-mismatch", "hostname-mismatch")
  ELSE IF ActionMismatch(variant, in, resp)
  THEN Failure(variant, in, "action-mismatch", "action-mismatch")
  ELSE IF TokenTooOld(variant, in, resp)
  THEN Failure(variant, in, "timeout-or-duplicate", "timeout-or-duplicate")
  ELSE IF variant = "result" /\ in.returnFullResponse THEN RetBody(resp)
  ELSE RetBool(TRUE)

\* The call after the endpoint answered with resp
VerifyResponse(variant, in, resp) ==
  IF HttpNotOk(resp) THEN ThrowError("request-failed")
  ELSE IF ~resp.success
  THEN IF variant = "throwing"
       THEN ThrowTurnstileError(IF resp.hasCodes THEN resp.codes ELSE <<"unknown-error">>)
       ELSE IF in.returnFullResponse THEN RetBody(resp) ELSE RetBool(FALSE)
  ELSE IF ActionMismatch(variant, in, resp)
  THEN Failure(variant, in, "action-mismatch", "action-mismatch")
  ELSE IF HostnameMismatch(variant, in, resp)
  THEN Failure(variant, in, "hostname-mismatch", "hostname-mismatch")
  ELSE IF TokenTooOld(variant, in, resp)
  THEN Failure(variant, in, "timeout-or-duplicate", "timeout-or-duplicate")
  ELSE IF variant = "result" /\ in.returnFullResponse THEN RetBody(resp)
  ELSE RetBool(TRUE)

\* A variant of VerifyFetchError that rethrows every error
VerifyFetchErrorRethrown(variant, in, err) == ThrowError(err)

\* The call after fetch rejected: an AbortError from the timer, or another error
VerifyFetchError(variant, in, err) ==
  IF err = "AbortError"
  THEN Failure(variant, in, "validation-timeout", "timeout-error")
  ELSE ThrowError(err)

\* The whole call as a function of its input and of what the endpoint does:
\* resp.kind is "none" (no answer needed), "aborted", "network-error",
\* "http-error" or "json"
VerifyOutcome(variant, in, resp) ==
  LET start == VerifyStart(variant, in)
  IN IF start.pc = "done" THEN start.result
     ELSE IF resp.kind = "aborted"
     THEN VerifyFetchError(variant, in, "AbortError")
     ELSE IF resp.kind = "network-error"
     THEN VerifyFetchError(variant, in, "TypeError")
     ELSE VerifyResponse(variant, in, resp)

\* Inputs of a call
Inputs ==
  [ token : Tokens,
    secretKey : OptStrings,
    envSecret : {"undefined", "set"},
    returnFullResponse : BOOLEAN,
    ip : {"none", "option", "detected"},
    idempotencyKey : BOOLEAN,
    uuidAvailable : BOOLEAN,
    hasTimeout : BOOLEAN,
    timeout : {5000},
    action : {"undefined", "login", "signup"},
    hostname : {"undefined", "a.example"},
    hasMaxTokenAge : BOOLEAN,
    maxTokenAge : {300} ]

\* Options the "throwing" variant does not have are left unset
InputsOf(variant) ==
  IF variant = "result" THEN {in \in Inputs : in.uuidAvailable}
  ELSE {in \in Inputs : ~in.returnFullResponse /\ ~in.idempotencyKey
                         /\ ~in.hasMaxTokenAge}

Responses ==
  {[NoResp EXCEPT !.kind = "http-error"]}
    \cup {[NoResp EXCEPT !.kind = "json", !.hasCodes = hc, !.codes = c] :
            hc \in {TRUE}, c \in {<<"invalid-input-response">>,
                                   <<"timeout-or-duplicate", "bad-request">>}}
    \cup {[NoResp EXCEPT !.kind = "json"]}
    \cup {[NoResp EXCEPT !.kind = "json", !.success = TRUE, !.action = a,
                         !.hostname = h] :
            a \in {"login", "signup"}, h \in {"a.example", "b.example"}}
    \cup {[NoResp EXCEPT !.kind = "json", !.success = TRUE, !.action = a,
                         !.hostname = h, !.hasTs = TRUE, !.age = g] :
            a \in {"login", "signup"}, h \in {"a.example", "b.example"},
            g \in {100, 300, 301, 400}}

NoInput == CHOOSE in \in Inputs : TRUE

VIdle ==
  /\ vPc = "idle"
  /\ vVariant = "result"
  /\ vIn = NoInput
  /\ vBody = NoBody
  /\ vFetches = 0
  /\ vTimer = 0
  /\ vResp = NoResp
  /\ vResult = NoResult

VInit ==
  /\ vPc = "idle"
  /\ vVariant \in {"result", "throwing"}
  /\ vIn = NoInput
  /\ vBody = NoBody
  /\ vFetches = 0
  /\ vTimer = 0
  /\ vResp = NoResp
  /\ vResult = NoResult

\* verifyTurnstile(token, options) runs up to its first suspension
VerifyCall ==
  /\ vPc = "idle"
  /\ \E in \in InputsOf(vVariant) :
       LET r == VerifyStart(vVariant, in)
       IN /\ vIn' = in
          /\ vPc' = r.pc
          /\ vBody' = r.body
          /\ vTimer' = r.timer
          /\ vFetches' = vFetches + r.fetches
          /\ vResult' = r.result
  /\ UNCHANGED <<vVariant, vResp, wvars, lvars, rvars, pvars>>

\* The endpoint answers
FetchResponds ==
  /\ vPc = "fetching"
  /\ \E resp \in Responses :
       /\ vResp' = resp
       /\ vResult' = VerifyResponse(vVariant, vIn, resp)
  /\ vPc' = "done"
  /\ vTimer' = 0
  /\ UNCHANGED <<vVariant, vIn, vBody, vFetches, wvars, lvars, rvars, pvars>>

\* The abort timer fires before the endpoint answers
FetchAborted ==
  /\ vPc = "fetching"
  /\ vTimer > 0
  /\ vResp' = [NoResp EXCEPT !.kind = "aborted"]
  /\ vResult' = VerifyFetchError(vVariant, vIn, "AbortError")
  /\ vPc' = "done"
  /\ vTimer' = 0
  /\ UNCHANGED <<vVariant, vIn, vBody, vFetches, wvars, lvars, rvars, pvars>>

\* fetch rejects for another reason (network failure)
FetchFails ==
  /\ vPc = "fetching"
  /\ vResp' = [NoResp EXCEPT !.kind = "network-error"]
  /\ vResult' = VerifyFetchError(vVariant, vIn, "TypeError")
  /\ vPc' = "done"
  /\ vTimer' = 0
  /\ UNCHANGED <<vVariant, vIn, vBody, vFetches, wvars, lvars, rvars, pvars>>

VNext ==
  \/ VerifyCall
  \/ FetchResponds
  \/ FetchAborted
  \/ FetchFails

\* ------------------------------------------------------------------------
\* The identifier registries of <TurnstileExplicit> and <TurnstileImplicit>
\* ------------------------------------------------------------------------
Instances == 1..MaxInstances

Kinds == {"explicit", "implicit"}

\* A prop that is undefined or the empty string
NoName == ""

\* Response field names given as props
FieldNames == {"f1", "f2"}

\* Container ids given as the containerId prop of <TurnstileExplicit>
CustomIds == {"cft-f1"}

\* Ids of the form cf-turnstile-<random>, drawn when no containerId is given
RandomIds == {"cf-turnstile-r1", "cf-turnstile-r2"}

\* The container id of <TurnstileImplicit>
ImplicitContainerId(name) == "cft-" \o name

\* Both registries as one value
Registry ==
  [containers |-> usedContainerIds, fields |-> usedResponseFieldNames]

\* A variant of DuplicateFieldName that never finds the name
DuplicateFieldNameIgnored(reg, name) == FALSE

DuplicateContainerId(reg, id) == id \in reg.containers

DuplicateFieldName(reg, name) == name \in reg.fields

\* The synchronous part of the effect of <TurnstileExplicit>: the outcome is
\* "mounted" when the effect got past both checks, else the error thrown;
\* reg is the registry the effect leaves behind
ExplicitEffect(reg, id, name) ==
  IF DuplicateContainerId(reg, id)
  THEN [reg |-> reg, outcome |-> "duplicate-container"]
  ELSE LET r1 == [reg EXCEPT !.containers = @ \cup {id}]
       IN IF name = NoName
          THEN [reg |-> r1, outcome |-> "mounted"]
          ELSE IF DuplicateFieldName(r1, name)
               THEN [reg |-> r1, outcome |-> "duplicate-field"]
               ELSE [reg |-> [r1 EXCEPT !.fields = @ \cup {name}],
                     outcome |-> "mounted"]

\* The synchronous part of the effect of <TurnstileImplicit>
ImplicitEffect(reg, name) ==
  IF DuplicateFieldName(reg, name)
  THEN [reg |-> reg, outcome |-> "duplicate-field"]
  ELSE LET r1 == [reg EXCEPT !.fields = @ \cup {name}]
       IN IF DuplicateContainerId(r1, ImplicitContainerId(name))
          THEN [reg |-> r1, outcome |-> "duplicate-container"]
          ELSE [reg |-> [r1 EXCEPT !.containers =
                                     @ \cup {ImplicitContainerId(name)}],
                outcome |-> "mounted"]

Effect(reg, kind, id, name) ==
  IF kind = "explicit" THEN ExplicitEffect(reg, id, name)
                       ELSE ImplicitEffect(reg, name)

\* A variant of ExplicitCleanup that leaves the field name registered
ExplicitCleanupContainerOnly(reg, id, name) ==
  [reg EXCEPT !.containers = @ \ {id}]

\* The registry part of the cleanup function of <TurnstileExplicit>
ExplicitCleanup(reg, id, name) ==
  [containers |-> reg.containers \ {id},
   fields |-> IF name # NoName THEN reg.fields \ {name} ELSE reg.fields]

\* The registry part of the cleanup function of <TurnstileImplicit>
ImplicitCleanup(reg, name) ==
  [containers |-> reg.containers \ {ImplicitContainerId(name)},
   fields |-> reg.fields \ {name}]

EffectCleanup(reg, kind, id, name) ==
  IF kind = "explicit" THEN ExplicitCleanup(reg, id, name)
                       ELSE ImplicitCleanup(reg, name)

\* An instance: live while its effect is in force (from the return of the
\* effect to its cleanup); id and field are the identifiers of that effect
\* run; pending: the continuation on the script promise has not run yet;
\* widget: localWidgetId is set; disconnected: the component is mounted, the
\* cleanup function of its last effect run has run and the effect has not
\* run again yet
NoInstance ==
  [live |-> FALSE, kind |-> "explicit", id |-> NoName, field |-> NoName,
   pending |-> FALSE, widget |-> FALSE, disconnected |-> FALSE]

\* What regLast records of an effect run, a cleanup or a continuation;
\* reused: a first effect run with the identifiers that the cleanup just
\* before it released
Ran(op, i, p, outcome) ==
  [op |-> op, inst |-> i, kind |-> p.kind, id |-> p.id, field |-> p.field,
   outcome |-> outcome,
   reused |-> /\ op = "mount"
              /\ regLast.op = "unmount"
              /\ regLast.kind = p.kind
              /\ regLast.id = p.id
              /\ regLast.field = p.field]

\* The props an instance can be given: the kind, the container id (a random
\* one when <TurnstileExplicit> gets no containerId) and the field name
PropsOf(reg) ==
  [kind : {"explicit"}, id : CustomIds, field : FieldNames \cup {NoName}]
  \cup { [kind |-> "explicit",
          id |-> CHOOSE r \in RandomIds \ reg.containers : TRUE,
          field |-> name] :
         name \in {n \in FieldNames \cup {NoName} :
                     RandomIds \ reg.containers # {}} }
  \cup { [kind |-> "implicit", id |-> ImplicitContainerId(name),
          field |-> name] : name \in FieldNames }

\* One run of the effect of instance i with props p, up to its return or throw
RunEffect(i, reg, p, op) ==
  LET r == Effect(reg, p.kind, p.id, p.field)
      ok == r.outcome = "mounted"
  IN /\ usedContainerIds' = r.reg.containers
     /\ usedResponseFieldNames' = r.reg.fields
     /\ instances' = [instances EXCEPT ![i] =
          IF ok THEN [live |-> TRUE, kind |-> p.kind, id |-> p.id,
                      field |-> p.field, pending |-> TRUE, widget |-> FALSE,
                      disconnected |-> FALSE]
                ELSE NoInstance]
     /\ regLast' = Ran(op, i, p, r.outcome)

RIdle ==
  /\ usedContainerIds = {}
  /\ usedResponseFieldNames = {}
  /\ instances = [i \in Instances |-> NoInstance]
  /\ regStale = {}
  /\ regLast = [op |-> "none", inst |-> 1, kind |-> "explicit", id |-> NoName,
                field |-> NoName, outcome |-> "none", reused |-> FALSE]

\* React mounts an instance: the effect runs for the first time
RegMount ==
  \E i \in Instances :
    /\ ~instances[i].live
    /\ ~instances[i].disconnected
    /\ \E p \in PropsOf(Registry) : RunEffect(i, Registry, p, "mount")
    /\ UNCHANGED <<regStale, wvars, lvars, vvars, pvars>>

\* React unmounts a live instance: the cleanup function runs
RegUnmount ==
  \E i \in Instances :
    LET w == instances[i]
        reg == EffectCleanup(Registry, w.kind, w.id, w.field)
    IN /\ w.live
       /\ usedContainerIds' = reg.containers
       /\ usedResponseFieldNames' = reg.fields
       /\ instances' = [instances EXCEPT ![i] = NoInstance]
       /\ regStale' = IF w.pending THEN regStale \cup {w.kind} ELSE regStale
       /\ regLast' = Ran("unmount", i, w,
                          IF w.widget THEN "removed" ELSE "released")
       /\ UNCHANGED <<wvars, lvars, vvars, pvars>>

\* A dependency of the effect changes, or React disconnects and reconnects
\* the effect (Strict Mode): the cleanup function of the last run runs while
\* the component stays mounted and its container stays in the document
RegCleanup ==
  \E i \in Instances :
    LET w == instances[i]
        reg == EffectCleanup(Registry, w.kind, w.id, w.field)
    IN /\ w.live
       /\ usedContainerIds' = reg.containers
       /\ usedResponseFieldNames' = reg.fields
       /\ instances' = [instances EXCEPT ![i] =
            [w EXCEPT !.live = FALSE, !.pending = FALSE, !.widget = FALSE,
                      !.disconnected = TRUE]]
       /\ regStale' = IF w.pending THEN regStale \cup {w.kind} ELSE regStale
       /\ regLast' = Ran("cleanup", i, w,
                          IF w.widget THEN "removed" ELSE "released")
       /\ UNCHANGED <<wvars, lvars, vvars, pvars>>

\* The effect of a disconnected instance runs again, with the field name of
\* the current props. The id of <TurnstileExplicit> is state and stays.
RegRerun ==
  \E i \in Instances :
    LET w == instances[i]
    IN /\ w.disconnected
       /\ \E name \in FieldNames \cup {NoName} :
            /\ w.kind = "implicit" => name # NoName
            /\ RunEffect(i, Registry,
                 [kind |-> w.kind,
                  id |-> IF w.kind = "explicit" THEN w.id
                         ELSE ImplicitContainerId(name),
                  field |-> name], "rerun")
       /\ UNCHANGED <<regStale, wvars, lvars, vvars, pvars>>

\* What the continuation of a live instance does once the script promise is
\* settled: .then renders (explicit) or does nothing (implicit), .catch
\* calls onError
Continuation(kind, resolved, api, rendered) ==
  IF ~resolved THEN "onError"
  ELSE IF kind = "implicit" THEN "nothing"
  ELSE IF ~api THEN "onError"
  ELSE IF rendered THEN "rendered" ELSE "onError"

\* The script promise settles and the continuation of a live instance runs
RegScriptSettles ==
  \E i \in Instances, resolved \in BOOLEAN, api \in BOOLEAN,
     rendered \in BOOLEAN :
    LET w == instances[i]
        out == Continuation(w.kind, resolved, api, rendered)
    IN /\ w.live
       /\ w.pending
       /\ instances' = [instances EXCEPT ![i] =
            [w EXCEPT !.pending = FALSE, !.widget = (out = "rendered")]]
       /\ regLast' = Ran("settle", i, w, out)
       /\ UNCHANGED <<usedContainerIds, usedResponseFieldNames, regStale,
                      wvars, lvars, vvars, pvars>>

\* The continuation of an effect run that was cleaned up: .then of
\* <TurnstileExplicit> returns at once, .catch still calls onError
RegStaleSettles ==
  \E kind \in regStale, resolved \in BOOLEAN :
    /\ regStale' = regStale \ {kind}
    /\ regLast' = Ran("stale", 1, [NoInstance EXCEPT !.kind = kind],
                       IF resolved THEN "nothing" ELSE "onError")
    /\ UNCHANGED <<usedContainerIds, usedResponseFieldNames, instances,
                   wvars, lvars, vvars, pvars>>

RNext ==
  \/ RegMount
  \/ RegUnmount
  \/ RegCleanup
  \/ RegRerun
  \/ RegScriptSettles
  \/ RegStaleSettles

\* ------------------------------------------------------------------------
\* The imperative operations: the handle of <Turnstile> and the helpers
\* ------------------------------------------------------------------------
\* "handle": the object of useImperativeHandle; "helpers": resetTurnstile,
\* removeTurnstile, ... built on getTurnstile(); "loadedHelpers": the helpers
\* built on isTurnstileLoaded()
HelperImpls == {"handle", "helpers", "loadedHelpers"}

AdapterMethods ==
  {"reset", "remove", "execute", "getResponse", "isExpired", "render"}

\* What a method of window.turnstile can return
AdapterReturns(m) ==
  CASE m = "getResponse" -> {"token", "empty", "undefined"}
    [] m = "isExpired" -> {"true", "false"}
    [] m = "render" -> {"id"}
    [] OTHER -> {"void"}

\* What each adapter method does when it is called: it returns, or throws
AdapterBehaviours ==
  [ reset : AdapterReturns("reset") \cup {"throws"},
    remove : AdapterReturns("remove") \cup {"throws"},
    execute : AdapterReturns("execute") \cup {"throws"},
    getResponse : AdapterReturns("getResponse") \cup {"throws"},
    isExpired : AdapterReturns("isExpired") \cup {"throws"},
    render : AdapterReturns("render") \cup {"throws"} ]

\* The environment of a call: the window, the API object, the cached widget
\* id of the component, and the behaviour of the adapter
HelperEnvs ==
  { e \in [ hasWindow : BOOLEAN, api : BOOLEAN, hasWidgetId : BOOLEAN,
            adapter : AdapterBehaviours ] : e.api => e.hasWindow }

\* The operations each implementation offers
HelperOps(impl) ==
  CASE impl = "handle" -> {"reset", "remove", "getResponse", "execute"}
    [] impl = "helpers" ->
         {"reset", "remove", "getResponse", "execute", "isTokenExpired"}
    [] OTHER -> {"reset", "remove", "getResponse", "execute"}

\* getTurnstile() / isTurnstileLoaded()
GetTurnstile(e) == e.hasWindow /\ e.api

\* What a call did: the adapter methods it called, what it returned, and
\* whether an exception left it
Did(calls, ret, thrown) == [calls |-> calls, ret |-> ret, thrown |-> thrown]

\* try { turnstile.m(ref) } catch { log }
TryCall(e, m) == Did(<<m>>, "void", FALSE)

\* try { return turnstile.getResponse(ref) || null } catch { return null }
TryGetResponse(e) ==
  Did(<<"getResponse">>,
      IF e.adapter["getResponse"] = "token" THEN "token" ELSE "null", FALSE)

\* try { return turnstile.isExpired(ref) } catch { return false }
TryIsExpired(e) ==
  Did(<<"isExpired">>,
      IF e.adapter["isExpired"] = "true" THEN "true" ELSE "false", FALSE)

\* executeTurnstile of the "loadedHelpers": getResponse inside the try,
\* render inside the catch
ExecuteByRender(e) ==
  IF e.adapter["getResponse"] = "throws"
  THEN Did(<<"getResponse", "render">>, "void", e.adapter["render"] = "throws")
  ELSE Did(<<"getResponse">>, "void", FALSE)

\* The guard in front of the adapter call
HelperGuard(impl, e) ==
  IF impl = "handle" THEN GetTurnstile(e) /\ e.hasWidgetId
                     ELSE GetTurnstile(e)

\* One operation of one implementation
RunHelper(impl, op, e) ==
  IF ~HelperGuard(impl, e)
  THEN Did(<<>>, IF op = "getResponse" THEN "null"
                 ELSE IF op = "isTokenExpired" THEN "false" ELSE "void", FALSE)
  ELSE IF op = "getResponse" THEN TryGetResponse(e)
  ELSE IF op = "isTokenExpired" THEN TryIsExpired(e)
  ELSE IF op = "execute" /\ impl = "loadedHelpers" THEN ExecuteByRender(e)
  ELSE TryCall(e, op)

NoHelperCall ==
  [impl |-> "none", op |-> "none",
   env |-> CHOOSE e \in HelperEnvs : TRUE,
   did |-> Did(<<>>, "void", FALSE)]

PIdle == hCall = NoHelperCall

\* A caller uses the handle of a <Turnstile> component
HandleCall ==
  /\ hCall = NoHelperCall
  /\ \E op \in HelperOps("handle"), e \in HelperEnvs :
       hCall' = [impl |-> "handle", op |-> op, env |-> e,
                 did |-> RunHelper("handle", op, e)]
  /\ UNCHANGED <<wvars, lvars, vvars, rvars, ipCall>>

\* A caller uses a helper built on getTurnstile()
HelperCall ==
  /\ hCall = NoHelperCall
  /\ \E op \in HelperOps("helpers"), e \in HelperEnvs :
       hCall' = [impl |-> "helpers", op |-> op, env |-> e,
                 did |-> RunHelper("helpers", op, e)]
  /\ UNCHANGED <<wvars, lvars, vvars, rvars, ipCall>>

\* A caller uses a helper built on isTurnstileLoaded()
LoadedHelperCall ==
  /\ hCall = NoHelperCall
  /\ \E op \in HelperOps("loadedHelpers"), e \in HelperEnvs :
       hCall' = [impl |-> "loadedHelpers", op |-> op, env |-> e,
                 did |-> RunHelper("loadedHelpers", op, e)]
  /\ UNCHANGED <<wvars, lvars, vvars, rvars, ipCall>>

PNext ==
  \/ HandleCall
  \/ HelperCall
  \/ LoadedHelperCall

\* ------------------------------------------------------------------------
\* Resolution of the visitor's IP: options.ip, getClientIp
\* ------------------------------------------------------------------------
\* A header that is absent (Headers.get gives null, a record gives undefined)
Undefined == "undefined"

\* !!v for an optional string
Truthy(v) == v # Undefined /\ v # ""

\* An x-forwarded-for value as its comma-separated entries; pad tells that
\* the entry is surrounded by white space
ForwardedEntries == [pad : BOOLEAN, text : {"", "10.0.0.1", "10.0.0.2"}]

ForwardedValues ==
  {<<e>> : e \in ForwardedEntries}
    \cup {<<e, [pad |-> TRUE, text |-> "10.0.0.9"]>> : e \in ForwardedEntries}

\* The headers of a request
HeaderBags ==
  [ forwarded : [present : {FALSE}, entries : {<<>>}]
                  \cup [present : {TRUE}, entries : ForwardedValues],
    cfConnectingIp : {Undefined, "", "172.16.0.1"},
    realIp : {Undefined, "", "192.168.0.1"} ]

NoHeaders ==
  [forwarded |-> [present |-> FALSE, entries |-> <<>>],
   cfConnectingIp |-> Undefined, realIp |-> Undefined]

\* value.split(",")
Split(v) == v.entries

\* entry.trim()
Trim(e) == e.text

\* h.get("x-forwarded-for")?.split(",")[0]?.trim()
FirstForwarded(h) ==
  IF h.forwarded.present THEN Trim(Head(Split(h.forwarded))) ELSE Undefined

\* a || b
Or(a, b) == IF Truthy(a) THEN a ELSE b

\* A variant of InitHeadersIp: cf-connecting-ip first in the second path of
\* the "result" variant
InitHeadersIpCloudflareFirst(variant, h) ==
  Or(Or(Or(h.cfConnectingIp, FirstForwarded(h)), h.realIp), Undefined)

\* The chain over the headers of next/headers
FrameworkIp(variant, h) ==
  IF variant = "result"
  THEN Or(Or(FirstForwarded(h), h.cfConnectingIp), h.realIp)
  ELSE Or(Or(h.cfConnectingIp, FirstForwarded(h)), h.realIp)

\* The chain over initHeaders, ending in || undefined
InitHeadersIp(variant, h) ==
  IF variant = "result"
  THEN Or(Or(Or(FirstForwarded(h), h.cfConnectingIp), h.realIp), Undefined)
  ELSE Or(Or(Or(h.cfConnectingIp, FirstForwarded(h)), h.realIp), Undefined)

\* getClientIp(initHeaders): fw.available is false when require("next/headers")
\* or headers() throws; init.given is false when no initHeaders are passed
GetClientIp(variant, fw, init) ==
  IF fw.available /\ Truthy(FrameworkIp(variant, fw.headers))
  THEN FrameworkIp(variant, fw.headers)
  ELSE IF init.given THEN InitHeadersIp(variant, init.headers)
  ELSE Undefined

\* A variant of ResolveIp that asks getClientIp first
ResolveIpHeadersFirst(variant, optIp, fw, init) ==
  IF Truthy(GetClientIp(variant, fw, init))
  THEN GetClientIp(variant, fw, init) ELSE optIp

\* const ip = options.ip ?? await getClientIp(options.headers)
ResolveIp(variant, optIp, fw, init) ==
  IF optIp # Undefined THEN optIp ELSE GetClientIp(variant, fw, init)

\* if (ip) body.remoteip = ip
RemoteIp(ip) == IF Truthy(ip) THEN ip ELSE "none"

HeaderSources ==
  [available : {FALSE}, headers : {NoHeaders}]
    \cup [available : {TRUE}, headers : HeaderBags]

NoIpCall ==
  [variant |-> "none", optIp |-> Undefined,
   fw |-> [available |-> FALSE, headers |-> NoHeaders],
   init |-> [given |-> FALSE, headers |-> NoHeaders],
   clientIp |-> Undefined, remoteip |-> "none"]

IIdle == ipCall = NoIpCall

\* The IP resolution of one verifyTurnstile call
IpCall(variant, optIp, fw, init) ==
  [variant |-> variant, optIp |-> optIp, fw |-> fw,
   init |-> [given |-> init.available, headers |-> init.headers],
   clientIp |-> GetClientIp(variant, fw,
                            [given |-> init.available, headers |-> init.headers]),
   remoteip |-> RemoteIp(ResolveIp(variant, optIp, fw,
                            [given |-> init.available, headers |-> init.headers]))]

\* verifyTurnstile of utils/verifyTurnstile.ts resolves the IP
ResolveIpResult ==
  /\ ipCall = NoIpCall
  /\ \E optIp \in {Undefined, "", "203.0.113.7"},
        fw \in HeaderSources, init \in HeaderSources :
       ipCall' = IpCall("result", optIp, fw, init)
  /\ UNCHANGED <<wvars, lvars, vvars, rvars, hCall>>

\* verifyTurnstile of the TurnstileError variant resolves the IP
ResolveIpThrowing ==
  /\ ipCall = NoIpCall
  /\ \E optIp \in {Undefined, "", "203.0.113.7"},
        fw \in HeaderSources, init \in HeaderSources :
       ipCall' = IpCall("throwing", optIp, fw, init)
  /\ UNCHANGED <<wvars, lvars, vvars, rvars, hCall>>

INext ==
  \/ ResolveIpResult
  \/ ResolveIpThrowing

\* ------------------------------------------------------------------------
\* Specifications of the helpers
\* ------------------------------------------------------------------------
InitVerify == VInit /\ WIdle /\ LIdle /\ RIdle /\ PIdle /\ IIdle

SpecVerify == InitVerify /\ [][VNext]_vars

InitLoader == LInit /\ WIdle /\ VIdle /\ RIdle /\ PIdle /\ IIdle

SpecLoader == InitLoader /\ [][LNext]_vars

\* The loader with its timers: a callback of setTimeout or setInterval that
\* is due runs eventually; nothing makes a script load or fail, or a caller
\* call
SpecLoaderTimers ==
  /\ InitLoader
  /\ [][LNext]_vars
  /\ WF_vars(LoadTimeout)
  /\ WF_vars(PollInterval)

InitRegistry == RIdle /\ WIdle /\ LIdle /\ VIdle /\ PIdle /\ IIdle

SpecRegistry == InitRegistry /\ [][RNext]_vars

InitHelpers == PIdle /\ IIdle /\ WIdle /\ LIdle /\ VIdle /\ RIdle

SpecHelpers == InitHelpers /\ [][PNext]_vars

InitIp == IIdle /\ PIdle /\ WIdle /\ LIdle /\ VIdle /\ RIdle

SpecIp == InitIp /\ [][INext]_vars

\* ------------------------------------------------------------------------
\* Callback dispatch through the refs (onLoadRef.current?.(), ...)
\* ------------------------------------------------------------------------
\* The callbacks that throw when they are invoked
ThrowingCallbacks == {2}

Throws(s) == s.callbackRefs \in ThrowingCallbacks

\* One invocation through a ref. cause is "callback-exception" when the
\* invocation is made by a handler of an exception that a callback threw;
\* fate is "returned", "thrown" (the callback threw) or "escaped" (and its
\* exception left the component)
Dispatched(s, kind) ==
  [kind |-> kind, to |-> s.callbackRefs, supplied |-> s.callbacks,
   cause |-> IF s.hist.exc = "callback" THEN "callback-exception" ELSE "event",
   fate |-> IF Throws(s) THEN "thrown" ELSE "returned"]

\* Invoke a callback; an exception a handler was holding is consumed, and
\* the callback's own exception propagates
Invoke(s, kind) ==
  [s EXCEPT !.hist = [@ EXCEPT !.lastDispatch = Dispatched(s, kind),
                               !.exc = IF Throws(s) THEN "callback" ELSE "none"]]

OnLoad(s) == Invoke(s, "load")

OnError(s, code) == Invoke(s, code)

\* An exception nobody caught leaves the component: an unhandled rejection
\* of the promise chain, or an exception thrown into the caller
Settle(s) ==
  IF s.hist.exc = "none" THEN s
  ELSE [s EXCEPT !.hist = [@ EXCEPT !.exc = "none",
                                    !.lastDispatch.fate = "escaped"]]

\* ------------------------------------------------------------------------
\* The Cloudflare API object window.turnstile
\* ------------------------------------------------------------------------
\* turnstile.remove(id): destroys the widget and its iframe, or throws (ok = FALSE)
AdapterRemove(s, id, ok) ==
  [s EXCEPT !.live = IF ok THEN @ \ {id} ELSE @,
            !.iframes = IF ok THEN @ \ {id} ELSE @,
            !.hist = [@ EXCEPT !.removeCalls = @ + 1,
                               !.lastRemoved = id,
                               !.adapterFailed = @ \/ ~ok,
                               !.cleanSinceChange = @ /\ ok]]

\* turnstile.render(container, options): outcome "id" adds an iframe to the
\* container and returns a fresh id; "null" returns no id; "throw" throws.
AdapterRender(s, cfg, outcome) ==
  LET id == s.hist.renderCalls + 1
      h == [s.hist EXCEPT !.renderCalls = @ + 1,
                          !.rendersSinceChange = @ + 1,
                          !.cleanSinceChange = @ /\ outcome = "id",
                          !.renderOnOccupied =
                              @ \/ s.iframes # {} \/ s.widgetIdRef # NoId,
                          !.adapterFailed = @ \/ outcome # "id",
                          !.lastRender = outcome,
                          !.exc = IF outcome = "throw" THEN "adapter" ELSE "none",
                          !.renderAfterRemoved = @ \/ s.hist.removed]
  IN IF outcome = "id"
     THEN [s EXCEPT !.live = @ \cup {id}, !.iframes = @ \cup {id}, !.hist = h]
     ELSE [s EXCEPT !.hist = h]

\* utils removeTurnstile(widgetRef): no-op without the API, swallows exceptions
RemoveTurnstile(s, id, ok) ==
  IF ~s.apiPresent THEN s ELSE AdapterRemove(s, id, ok)

\* utils loadTurnstileScript() as the component sees it: the cached promise,
\* or a new one that is resolved at once when window.turnstile exists
LoadTurnstileScript(s) ==
  IF s.scriptPromise # "none" THEN s
  ELSE [s EXCEPT !.scriptPromise = IF s.apiPresent THEN "resolved" ELSE "pending"]

\* ------------------------------------------------------------------------
\* The main effect of <Turnstile>
\* ------------------------------------------------------------------------
\* container.querySelector('iframe[src*="turnstile"], iframe[allow*="cross-origin"]')
Check3Iframe(s) == s.iframes # {} /\ s.selMatch

\* (mutant) the final check made with the narrow selector of check 3
FinalIframeCheckNarrow(s) == s.iframes # {} /\ s.selMatch

\* containerRef.current.querySelector('iframe')
FinalIframeCheck(s) == s.iframes # {}

\* (mutant) check 2 forgets the previous widget without removing it
RemovePreviousWidgetNoRemove(s, removeOk) ==
  IF s.widgetIdRef = NoId THEN s
  ELSE [s EXCEPT !.widgetIdRef = NoId, !.isReady = FALSE]

\* Check 2: a cached id with hasRenderedRef false is taken for a configuration change
RemovePreviousWidget(s, removeOk) ==
  IF s.widgetIdRef = NoId THEN s
  ELSE LET r == IF s.apiPresent
                THEN AdapterRemove(s, s.widgetIdRef, removeOk)
                ELSE s
       IN [r EXCEPT !.widgetIdRef = NoId, !.isReady = FALSE]

\* The effect body up to the registration of the load continuation.
\* An early return registers no cleanup function.
EffectBody(s, cfg, removeOk) ==
  LET change == s.effectCfg # 0 /\ s.effectCfg # cfg /\ s.widgetIdRef # NoId
      over == s.widgetIdRef # NoId \/ s.iframes # {}
      h == [s.hist EXCEPT
              !.mounts = @ + 1,
              !.remounted = @ \/ over,
              !.rendersSinceChange = IF change THEN 0 ELSE @,
              !.cleanSinceChange = change \/ (@ /\ ~over)]
      s0 == [s EXCEPT !.isMountedRef = TRUE, !.effectCfg = cfg, !.hist = h,
                      !.hasCleanup = FALSE]
  IN IF ~s0.containerRef THEN s0
     ELSE IF s0.hasRenderedRef THEN s0
     ELSE LET s1 == RemovePreviousWidget(s0, removeOk)
          IN IF Check3Iframe(s1) THEN s1
             ELSE LET s2 == LoadTurnstileScript(s1)
                  IN [s2 EXCEPT !.hasRenderedRef = TRUE,
                                !.conts = Append(@, cfg),
                                !.hasCleanup = TRUE]

\* (mutant) the two tests joined the wrong way round
IsRealUnmountInverted(s) == s.containerRef /\ ~s.inDocument

\* const isRealUnmount = !containerRef.current || !document.body.contains(containerRef.current)
IsRealUnmount(s) == ~s.containerRef \/ ~s.inDocument

\* The cleanup function returned by the effect
CleanupFn(s, removeOk) ==
  LET s1 == [s EXCEPT !.isMountedRef = FALSE, !.hasCleanup = FALSE]
  IN IF IsRealUnmount(s1) /\ s1.widgetIdRef # NoId
     THEN LET s2 == RemoveTurnstile(s1, s1.widgetIdRef, removeOk)
          IN [s2 EXCEPT !.widgetIdRef = NoId, !.hasRenderedRef = FALSE,
                        !.isReady = FALSE]
     ELSE [s1 EXCEPT !.hasRenderedRef = FALSE]

RunCleanup(s, removeOk) == IF s.hasCleanup THEN CleanupFn(s, removeOk) ELSE s

\* try { turnstile.render(...) ... } catch { ... }
RenderWidget(s, cfg, outcome) ==
  LET r == AdapterRender(s, cfg, outcome)
      tried ==
        CASE outcome = "id" ->
               LET r1 == [r EXCEPT !.widgetIdRef = r.hist.renderCalls]
               IN IF r1.isMountedRef THEN OnLoad([r1 EXCEPT !.isReady = TRUE]) ELSE r1
          [] outcome = "null" ->
               LET e == OnError(r, "render_failed")
               IN IF e.hist.exc = "none" THEN [e EXCEPT !.hasRenderedRef = FALSE] ELSE e
          [] OTHER -> r
  IN IF tried.hist.exc = "none" THEN tried
     ELSE LET c == OnError(tried, "render_exception")
          IN IF c.hist.exc = "none" THEN [c EXCEPT !.hasRenderedRef = FALSE] ELSE c

\* (mutant) the continuation renders without the re-checks made after the load
ThenHandlerNoRecheck(s, cfg, outcome) ==
  IF ~s.isMountedRef \/ ~s.containerRef
  THEN [s EXCEPT !.hasRenderedRef = FALSE]
  ELSE IF ~s.apiPresent
  THEN LET e == OnError(s, "script_load_failed")
       IN IF e.hist.exc = "none" THEN [e EXCEPT !.hasRenderedRef = FALSE] ELSE e
  ELSE RenderWidget(s, cfg, outcome)

\* loadTurnstileScript().then(() => { ... })
ThenHandler(s, cfg, outcome) ==
  IF ~s.isMountedRef \/ ~s.containerRef
  THEN [s EXCEPT !.hasRenderedRef = FALSE]
  ELSE IF ~s.apiPresent
  THEN LET e == OnError(s, "script_load_failed")
       IN IF e.hist.exc = "none" THEN [e EXCEPT !.hasRenderedRef = FALSE] ELSE e
  ELSE IF FinalIframeCheck(s)
  THEN OnLoad([s EXCEPT !.isReady = TRUE])
  ELSE IF s.widgetIdRef # NoId
  THEN OnLoad([s EXCEPT !.isReady = TRUE])
  ELSE RenderWidget(s, cfg, outcome)

\* A variant of CatchHandler that reports nothing
CatchHandlerSilent(s) ==
  [s EXCEPT !.hasRenderedRef = FALSE, !.hist.exc = "none"]

\* .catch((error) => { ... })
CatchHandler(s) ==
  LET s1 == IF s.isMountedRef THEN OnError(s, "script_load_failed")
            ELSE [s EXCEPT !.hist.exc = "none"]
  IN IF s1.hist.exc = "none" THEN [s1 EXCEPT !.hasRenderedRef = FALSE] ELSE s1

\* loadTurnstileScript().then(...).catch(...) once the load has settled: the
\* catch handler also receives what the then handler throws
PromiseChain(s, resolved, cfg, outcome) ==
  IF resolved
  THEN LET r == ThenHandler(s, cfg, outcome)
       IN Settle(IF r.hist.exc = "none" THEN r ELSE CatchHandler(r))
  ELSE Settle(CatchHandler(s))

\* (mutant) the callbacks listed among the dependencies
EffectDepsWithCallbacks(cfg, cb) == <<cfg, cb>>

\* The dependency list of the main effect: configuration props only
EffectDeps(cfg, cb) == <<cfg>>

\* ref.remove()
HandleRemove(s, ok) ==
  IF s.apiPresent /\ s.widgetIdRef # NoId
  THEN LET r == AdapterRemove(s, s.widgetIdRef, ok)
       IN IF ok
          THEN [r EXCEPT !.widgetIdRef = NoId, !.hasRenderedRef = FALSE,
                         !.isReady = FALSE, !.hist.removed = TRUE]
          ELSE r
  ELSE s

\* ref.reset(), ref.execute(), ref.getResponse(): one adapter call when the
\* API object exists and an id is cached, nothing otherwise
WidgetOps == {"reset", "execute", "getResponse"}

HandleWidgetOp(s, op) ==
  IF s.apiPresent /\ s.widgetIdRef # NoId
  THEN [s EXCEPT !.hist.opAfterRemoved = @ \/ s.hist.removed]
  ELSE s

\* ------------------------------------------------------------------------
\* Actions
\* ------------------------------------------------------------------------
RenderOutcomes == {"id", "null", "throw"}

\* React runs the effect: the first mount, or a reconnect after a transient cleanup
MountEffect ==
  /\ phase = "disconnected"
  /\ hist.mounts < MaxMounts
  /\ \E removeOk \in BOOLEAN :
       Becomes([EffectBody(W, config, removeOk) EXCEPT !.phase = "connected"])

\* React disconnects the effect while the container stays in the document
\* (Strict Mode double invocation, reconnectPassiveEffects)
TransientCleanup ==
  /\ phase = "connected"
  /\ \E removeOk \in BOOLEAN :
       Becomes([RunCleanup(W, removeOk) EXCEPT !.phase = "disconnected"])

\* The host re-renders with props c (configuration) and k (callbacks): the
\* layout effect stores the callbacks; the main effect re-runs when its
\* dependency list changed
Rerender(c, k) ==
  /\ phase = "connected"
  /\ <<c, k>> # <<config, callbacks>>
  /\ LET s0 == [W EXCEPT !.config = c, !.callbacks = k, !.callbackRefs = k]
     IN IF EffectDeps(c, k) = EffectDeps(config, callbacks)
        THEN Becomes(s0)
        ELSE /\ hist.mounts < MaxMounts
             /\ \E ok1 \in BOOLEAN, ok2 \in BOOLEAN :
                  Becomes(EffectBody(RunCleanup(s0, ok1), c, ok2))

\* React removes the component: the ref is detached and the container leaves
\* the document; the passive cleanup follows in FinalCleanup
Detach ==
  /\ phase \in {"connected", "disconnected"}
  /\ Becomes([W EXCEPT !.containerRef = FALSE, !.inDocument = FALSE,
                       !.phase = IF phase = "connected" THEN "detached"
                                 ELSE "unmounted"])

FinalCleanup ==
  /\ phase = "detached"
  /\ \E removeOk \in BOOLEAN :
       Becomes([RunCleanup(W, removeOk) EXCEPT !.phase = "unmounted"])

\* The script load settles: window.turnstile appears (or not), or the load fails
LoadSettle ==
  /\ scriptPromise = "pending"
  /\ \E outcome \in {"ready", "noapi", "failed"} :
       Becomes([W EXCEPT !.scriptPromise =
                             IF outcome = "failed" THEN "rejected" ELSE "resolved",
                         !.apiPresent = (outcome = "ready")])

\* The oldest pending continuation of the load promise runs
ContinuationRun ==
  /\ conts # <<>>
  /\ scriptPromise \in {"resolved", "rejected"}
  /\ LET s0 == [W EXCEPT !.conts = Tail(@)]
     IN IF scriptPromise = "resolved"
        THEN \E outcome \in RenderOutcomes :
               Becomes(PromiseChain(s0, TRUE, Head(conts), outcome))
        ELSE Becomes(PromiseChain(s0, FALSE, Head(conts), "id"))

\* The host calls ref.current.remove()
ImperativeRemove ==
  /\ phase \in {"connected", "disconnected"}
  /\ hist.removeCalls < MaxRemoves
  /\ \E ok \in BOOLEAN :
       Becomes([HandleRemove(W, ok) EXCEPT
                  !.hist = [@ EXCEPT !.imperative = TRUE, !.cleanSinceChange = FALSE]])

\* The host calls ref.current.reset(), execute() or getResponse()
ImperativeOp ==
  /\ phase \in {"connected", "disconnected"}
  /\ \E op \in WidgetOps : Becomes(HandleWidgetOp(W, op))

\* Cloudflare invokes one of the callbacks given in the render options
WidgetNotify ==
  /\ live # {}
  /\ Becomes(Settle(Invoke(W, "notify")))

Next ==
  \/ MountEffect
  \/ TransientCleanup
  \/ \E c \in Configs, k \in Callbacks : Rerender(c, k)
  \/ Detach
  \/ FinalCleanup
  \/ LoadSettle
  \/ ContinuationRun
  \/ ImperativeRemove
  \/ ImperativeOp
  \/ WidgetNotify

Init == WInit /\ LIdle /\ VIdle /\ RIdle /\ PIdle /\ IIdle

Spec == Init /\ [][Next]_vars

\* ------------------------------------------------------------------------
\* Claims about the widget lifecycle controller
\* ------------------------------------------------------------------------
\* No mount pass ran over an existing widget, remove() was not called and the
\* adapter never failed
Undisturbed == ~hist.remounted /\ ~hist.imperative /\ ~hist.adapterFailed

\* C1: however many mount passes (with transient cleanups between them) run
\* before the first render, the adapter's render is called at most once, and
\* exactly once when every continuation of a successful load has run while
\* the component is connected.
C1_RenderOnce ==
  /\ Undisturbed => hist.renderCalls <= 1
  /\ ( /\ Undisturbed
       /\ hist.mounts >= 1
       /\ conts = <<>>
       /\ phase = "connected"
       /\ scriptPromise = "resolved"
       /\ apiPresent ) => hist.renderCalls = 1

C1_Witness ==
  /\ Undisturbed
  /\ hist.mounts >= 2
  /\ conts = <<>>
  /\ phase = "connected"
  /\ hist.renderCalls = 1
  /\ widgetIdRef # NoId

\* C3: the container never holds more than one widget: the adapter has at
\* most one live widget of this component, and render is never called while
\* an iframe is in the container or a widget id is cached.
C3_OneWidgetPerContainer ==
  /\ Cardinality(live) <= 1
  /\ Cardinality(iframes) <= 1
  /\ ~hist.renderOnOccupied

C3_Witness ==
  /\ hist.renderCalls >= 2
  /\ hist.remounted
  /\ hist.imperative
  /\ Cardinality(live) = 1

\* C4: when React runs the cleanup of an unmounted component (container out
\* of the document) that holds a widget id and is ready, turnstile.remove is
\* called with that id, the id is cleared, readiness and hasRenderedRef reset.
C4_RealUnmountRemoves ==
  [][ (phase = "detached" /\ phase' = "unmounted" /\ widgetIdRef # NoId /\ isReady)
        => /\ hist'.removeCalls = hist.removeCalls + 1
           /\ hist'.lastRemoved = widgetIdRef
           /\ widgetIdRef' = NoId
           /\ ~isReady'
           /\ ~hasRenderedRef' ]_vars

C4_Witness ==
  /\ phase = "unmounted"
  /\ ~hist.remounted
  /\ ~hist.imperative
  /\ hist.removeCalls = 1
  /\ hist.lastRemoved = 1
  /\ widgetIdRef = NoId
  /\ ~isReady
  /\ live = {}

\* C5 (as claimed): a transient cleanup only clears hasRenderedRef, and the
\* next mount pass with the same configuration over the ready widget calls
\* neither render nor remove and keeps the widget.
C5_TransientCleanupKeepsWidget ==
  [][ /\ (phase = "connected" /\ phase' = "disconnected")
          => /\ widgetIdRef' = widgetIdRef
             /\ isReady' = isReady
             /\ ~hasRenderedRef'
             /\ hist'.removeCalls = hist.removeCalls
      /\ ( /\ phase = "disconnected" /\ phase' = "connected"
           /\ widgetIdRef # NoId /\ isReady
           /\ config = effectCfg )
          => /\ hist'.removeCalls = hist.removeCalls
             /\ hist'.renderCalls = hist.renderCalls
             /\ widgetIdRef' = widgetIdRef
             /\ isReady'
             /\ live' = live
             /\ conts' = conts ]_vars

\* C6: an effect run with a changed configuration over a cached widget id
\* calls turnstile.remove with that id and clears the id and readiness before
\* any new render; when nothing else disturbs the widget and the adapter
\* does not fail, exactly one render call follows.
C6_ConfigChangeRecreates ==
  /\ [][ (effectCfg # 0 /\ effectCfg' # effectCfg /\ widgetIdRef # NoId)
           => /\ hist'.removeCalls = hist.removeCalls + 1
              /\ hist'.lastRemoved = widgetIdRef
              /\ widgetIdRef' = NoId
              /\ ~isReady'
              /\ hist'.renderCalls = hist.renderCalls ]_vars
  /\ []( (hist.cleanSinceChange /\ conts = <<>> /\ phase = "connected")
           => hist.rendersSinceChange = 1 )

C6_Witness ==
  /\ hist.cleanSinceChange
  /\ conts = <<>>
  /\ phase = "connected"
  /\ hist.rendersSinceChange = 1
  /\ hist.renderCalls = 2
  /\ hist.removeCalls = 1
  /\ widgetIdRef = 2
  /\ live = {2}
  /\ isReady

\* C7: a re-render that changes only the callbacks calls neither render nor
\* remove and keeps the widget, and every callback dispatch goes to the
\* callback supplied last.
C7_CallbackChangeKeepsWidget ==
  /\ [][ (callbacks' # callbacks /\ config' = config)
           => /\ hist'.renderCalls = hist.renderCalls
              /\ hist'.removeCalls = hist.removeCalls
              /\ widgetIdRef' = widgetIdRef
              /\ isReady' = isReady
              /\ live' = live
              /\ conts' = conts ]_vars
  /\ [](hist.lastDispatch.to = hist.lastDispatch.supplied)

C7_Witness ==
  /\ hist.lastDispatch.kind = "notify"
  /\ hist.lastDispatch.to # 1
  /\ hist.renderCalls = 1
  /\ hist.removeCalls = 0
  /\ widgetIdRef = 1
  /\ live = {1}

\* ------------------------------------------------------------------------
\* Claims about loadTurnstileScript (checked under SpecLoader)
\* ------------------------------------------------------------------------
\* Script elements a call for this mode appended to the document head
Appended(mode) ==
  {i \in DOMAIN lScripts :
     lScripts[i].by # NoPromise /\ lPromises[lScripts[i].by].mode = mode}

\* The calls made for this mode
CallsFor(mode) == {c \in DOMAIN lReturned : lPromises[lReturned[c]].mode = mode}

SamePromise(mode) == \A c, d \in CallsFor(mode) : lReturned[c] = lReturned[d]

FirstCallFor(mode) == CHOOSE c \in CallsFor(mode) : \A d \in CallsFor(mode) : c <= d

\* C2 as stated: in a document context, after N >= 1 calls for one mode
\* made while the first call's promise is still pending, exactly one script
\* element was appended for that mode and all callers hold the same promise.
C2_ExactlyOneScript ==
  \A m \in AllModes :
    (/\ lHasWindow
     /\ CallsFor(m) # {}
     /\ lPromises[lReturned[FirstCallFor(m)]].status = "pending")
    => (Cardinality(Appended(m)) = 1 /\ SamePromise(m))

\* C2 amended: in a document context at most one script element is ever
\* appended per mode and all callers of a mode hold the same promise; exactly
\* one is appended when the first call found no matching script tag (and, for
\* loadTurnstileScript(), no window.turnstile), none otherwise.
C2_AtMostOneScript ==
  \A m \in AllModes :
    (lHasWindow /\ CallsFor(m) # {})
    => LET p == lPromises[lReturned[FirstCallFor(m)]]
       IN /\ SamePromise(m)
          /\ Cardinality(Appended(m)) <= 1
          /\ Cardinality(Appended(m)) =
               (IF p.sawScript \/ (lImpl = "explicitOnly" /\ p.sawApi)
                THEN 0 ELSE 1)

\* Three calls before the script loaded: one script, one pending promise
C2_Witness ==
  /\ lHasWindow
  /\ Len(lReturned) = MaxCalls
  /\ \E m \in AllModes :
       /\ CallsFor(m) = DOMAIN lReturned
       /\ Cardinality(Appended(m)) = 1
       /\ lPromises[lReturned[1]].status = "pending"
       /\ lReturned[MaxCalls] = lReturned[1]

\* ------------------------------------------------------------------------
\* Claims about verifyTurnstile (checked under SpecVerify)
\* ------------------------------------------------------------------------
\* The call reported a verification failure with this tag: false or, with
\* returnFullResponse, the failure object carrying resultCode; a
\* TurnstileError carrying thrownCode in the throwing variant
ReportedFailure(resultCode, thrownCode) ==
  IF vVariant = "throwing"
  THEN vResult = ThrowTurnstileError(<<thrownCode>>)
  ELSE /\ vResult.kind = "return"
       /\ ~vResult.success
       /\ vResult.full = vIn.returnFullResponse
       /\ vIn.returnFullResponse => vResult.codes = <<resultCode>>

NoRequestIssued == vFetches = 0 /\ ~vBody.sent

\* C8: a string token longer than 2048 characters is reported as
\* token-too-long / invalid-input-response without a request; a token of
\* exactly 2048 characters passes this check (the call goes on to the secret
\* key and the request).
C8_TokenTooLong ==
  vPc # "idle" =>
    /\ (vIn.token.type = "string" /\ vIn.token.len > 2048)
       => /\ vPc = "done"
          /\ ReportedFailure("token-too-long", "invalid-input-response")
          /\ NoRequestIssued
    /\ (vIn.token.type = "string" /\ vIn.token.len = 2048)
       => \/ vFetches = 1
          \/ vResult = ThrowError("secret-key-not-provided")

C8_Witness ==
  /\ vPc = "done"
  /\ vIn.token.type = "string"
  /\ vIn.token.len = 2049
  /\ vIn.secretKey = "set"
  /\ vFetches = 0
  /\ vResult.kind # "none"

\* C9: an empty or non-string token is reported as invalid-token-format /
\* missing-input-response without a request, whatever the secret key.
C9_InvalidTokenFormat ==
  (vPc # "idle" /\ (vIn.token.type # "string" \/ vIn.token.len = 0))
  => /\ vPc = "done"
     /\ ReportedFailure("invalid-token-format", "missing-input-response")
     /\ NoRequestIssued

C9_Witness ==
  /\ vPc = "done"
  /\ vIn.token.type = "object"
  /\ SecretMissing(vIn)
  /\ vResult.kind # "none"
  /\ vResult.error # "secret-key-not-provided"

\* C10: with a well-formed token and neither options.secretKey nor
\* TURNSTILE_SECRET_KEY set, the call throws a plain configuration error in
\* every variant and result mode and issues no request.
C10_MissingSecretThrows ==
  (/\ vPc # "idle"
   /\ vIn.token.type = "string"
   /\ vIn.token.len >= 1
   /\ vIn.token.len <= 2048
   /\ vIn.secretKey = "undefined"
   /\ vIn.envSecret = "undefined")
  => /\ vPc = "done"
     /\ vResult = ThrowError("secret-key-not-provided")
     /\ NoRequestIssued

C10_Witness ==
  /\ vPc = "done"
  /\ vVariant = "result"
  /\ vIn.returnFullResponse
  /\ vIn.token.type = "string"
  /\ vIn.token.len = 2048
  /\ vIn.secretKey = "undefined"
  /\ vIn.envSecret = "undefined"
  /\ vResult.kind = "throw"

\* The call returned success: true, or the success response with
\* returnFullResponse
ReportedSuccess ==
  /\ vResult.kind = "return"
  /\ vResult.success
  /\ vResult.full = (vVariant = "result" /\ vIn.returnFullResponse)

\* C11: a non-2xx HTTP response makes the call throw an error; it is never
\* returned as false or a failure object, nor thrown as a TurnstileError.
C11_HttpErrorThrows ==
  (vPc = "done" /\ vResp.kind = "http-error")
  => /\ vResult = ThrowError("request-failed")
     /\ vFetches = 1

C11_Witness ==
  /\ vPc = "done"
  /\ vResp.kind = "http-error"
  /\ vVariant = "result"
  /\ vIn.returnFullResponse
  /\ vResult.kind = "throw"

\* C12: when the abort timer fires during the request, the call reports a
\* failure tagged validation-timeout / timeout-error (false in boolean
\* mode); the AbortError itself is never rethrown.
C12_AbortIsTimeoutFailure ==
  (vPc = "done" /\ vResp.kind = "aborted")
  => /\ ReportedFailure("validation-timeout", "timeout-error")
     /\ vResult.error # "AbortError"

C12_Witness ==
  /\ vPc = "done"
  /\ vResp.kind = "aborted"
  /\ vVariant = "result"
  /\ vIn.returnFullResponse
  /\ vResult.codes = <<"validation-timeout">>

\* C13 (as claimed): every request in flight is bounded by an armed abort
\* timer, of 10 seconds when options.timeout is not given and of
\* options.timeout otherwise.
C13_RequestBounded ==
  vPc = "fetching"
  => /\ vTimer > 0
     /\ vTimer = (IF vIn.hasTimeout THEN vIn.timeout ELSE 10000)

\* C14: on a success response, a requested action (hostname) that differs
\* from the response's gives action-mismatch (hostname-mismatch); when the
\* requested ones are equal and the token is not too old, the result is
\* success.
C14_ActionHostnamePolicy ==
  (vPc = "done" /\ vResp.kind = "json" /\ vResp.success)
  => LET actionReq == vIn.action # "undefined"
         hostReq == vIn.hostname # "undefined"
         actionOk == ~actionReq \/ vResp.action = vIn.action
         hostOk == ~hostReq \/ vResp.hostname = vIn.hostname
     IN /\ (actionReq /\ ~actionOk)
           => ReportedFailure("action-mismatch", "action-mismatch")
        /\ (hostReq /\ actionOk /\ ~hostOk)
           => ReportedFailure("hostname-mismatch", "hostname-mismatch")
        /\ ((actionReq \/ hostReq) /\ actionOk /\ hostOk
              /\ ~TokenTooOld(vVariant, vIn, vResp))
           => ReportedSuccess

\* Response action "login", requested action "signup"
C14_Witness ==
  /\ vPc = "done"
  /\ vResp.kind = "json"
  /\ vResp.success
  /\ vResp.action = "login"
  /\ vIn.action = "signup"
  /\ vIn.returnFullResponse
  /\ vResult.codes = <<"action-mismatch">>

\* C15: with maxTokenAge given, on a success response that passes the action
\* and hostname checks, the result is a failure tagged timeout-or-duplicate
\* exactly when the age of challenge_ts in seconds exceeds maxTokenAge, and
\* success otherwise.
C15_TokenAgePolicy ==
  (/\ vPc = "done" /\ vVariant = "result" /\ vIn.hasMaxTokenAge
   /\ vResp.kind = "json" /\ vResp.success /\ vResp.hasTs
   /\ ~ActionMismatch(vVariant, vIn, vResp)
   /\ ~HostnameMismatch(vVariant, vIn, vResp))
  => IF vResp.age > vIn.maxTokenAge
     THEN ReportedFailure("timeout-or-duplicate", "timeout-or-duplicate")
     ELSE ReportedSuccess

\* challenge_ts 400 seconds old, maxTokenAge 300
C15_Witness ==
  /\ vPc = "done"
  /\ vVariant = "result"
  /\ vIn.hasMaxTokenAge
  /\ vIn.maxTokenAge = 300
  /\ vResp.success
  /\ vResp.hasTs
  /\ vResp.age = 400
  /\ vIn.returnFullResponse
  /\ vResult.codes = <<"timeout-or-duplicate">>

\* C16 (as claimed): the imperative remove() calls turnstile.remove with the
\* cached id and clears the id and readiness, and the controller is then in
\* a terminal state: afterwards no mount pass renders a widget and no reset,
\* execute or getResponse reaches the adapter.
C16_RemoveIsTerminal ==
  /\ [][ (~hist.removed /\ hist'.removed)
           => /\ widgetIdRef # NoId
              /\ hist'.removeCalls = hist.removeCalls + 1
              /\ hist'.lastRemoved = widgetIdRef
              /\ widgetIdRef' = NoId
              /\ ~isReady' ]_vars
  /\ [](~hist.renderAfterRemoved /\ ~hist.opAfterRemoved)

\* C17: with callbacks that do not throw, a continuation that meets a failed
\* script load (while mounted), a missing API object, a render that returns
\* no id or a render that throws invokes onError with script_load_failed,
\* script_load_failed, render_failed and render_exception respectively,
\* clears hasRenderedRef, caches no id, and lets no exception leave the
\* promise chain.
C17_FailuresReported ==
  [][ (conts # <<>> /\ conts' = Tail(conts) /\ callbackRefs \notin ThrowingCallbacks)
        => /\ hist'.lastDispatch # hist.lastDispatch
                => hist'.lastDispatch.fate = "returned"
           /\ (scriptPromise = "rejected" /\ isMountedRef)
                => /\ hist'.lastDispatch.kind = "script_load_failed"
                   /\ ~hasRenderedRef'
                   /\ hist'.renderCalls = hist.renderCalls
           /\ (scriptPromise = "resolved" /\ ~apiPresent /\ isMountedRef /\ containerRef)
                => /\ hist'.lastDispatch.kind = "script_load_failed"
                   /\ ~hasRenderedRef'
           /\ (hist'.renderCalls = hist.renderCalls + 1 /\ hist'.lastRender = "null")
                => /\ hist'.lastDispatch.kind = "render_failed"
                   /\ ~hasRenderedRef'
                   /\ widgetIdRef' = NoId
           /\ (hist'.renderCalls = hist.renderCalls + 1 /\ hist'.lastRender = "throw")
                => /\ hist'.lastDispatch.kind = "render_exception"
                   /\ ~hasRenderedRef'
                   /\ widgetIdRef' = NoId ]_vars

\* A first render returned no id and was reported; the next mount pass
\* rendered the widget
C17_Witness ==
  /\ hist.renderCalls = 2
  /\ hist.lastRender = "id"
  /\ hist.adapterFailed
  /\ hist.removeCalls = 0
  /\ hist.mounts = 2
  /\ callbackRefs \notin ThrowingCallbacks
  /\ widgetIdRef = 2
  /\ live = {2}
  /\ isReady

\* C18 (as claimed): an exception thrown by a callback never leaves the
\* component, never makes a callback be invoked with a failure code, and does
\* not change hasRenderedRef (the render that just succeeded leaves it as it
\* was).
C18_ThrowingCallbackContained ==
  /\ [](/\ hist.lastDispatch.fate # "escaped"
        /\ hist.lastDispatch.cause # "callback-exception")
  /\ [][ (widgetIdRef = NoId /\ widgetIdRef' # NoId)
           => hasRenderedRef' = hasRenderedRef ]_vars

\* Another live instance holds the container id or the field name
HeldByOther(i, id, name) ==
  \E v \in Instances \ {i} :
    /\ instances[v].live
    /\ \/ instances[v].id = id
       \/ name # NoName /\ instances[v].field = name

\* C19: an effect run (first mount or re-run) of an instance whose container
\* id or response field name is held by another live instance throws a
\* duplicate error, and every other live instance stays as it was with its
\* container id and its field name still registered.
C19_DuplicateMountThrows ==
  [][ \A i \in Instances :
        ( /\ rvars' # rvars
          /\ regLast'.op \in {"mount", "rerun"}
          /\ regLast'.inst = i
          /\ HeldByOther(i, regLast'.id, regLast'.field) )
        => /\ regLast'.outcome \in {"duplicate-container", "duplicate-field"}
           /\ ~instances'[i].live
           /\ \A v \in Instances \ {i} :
                instances[v].live
                => /\ instances'[v] = instances[v]
                   /\ instances[v].id \in usedContainerIds'
                   /\ instances[v].field # NoName
                      => instances[v].field \in usedResponseFieldNames' ]_vars

C19_Witness ==
  /\ regLast.op = "mount"
  /\ regLast.outcome = "duplicate-field"
  /\ ~instances[regLast.inst].live
  /\ \E v \in Instances \ {regLast.inst} :
       /\ instances[v].live
       /\ instances[v].field = regLast.field
       /\ instances[v].id \in usedContainerIds
       /\ instances[v].field \in usedResponseFieldNames

\* C20: the cleanup of a live instance leaves neither its container id nor
\* its response field name registered, so that the effect of a fresh instance
\* with the same identifiers gets past both duplicate checks; a first effect
\* run that follows the cleanup with the same identifiers mounts.
C20_UnmountReleases ==
  /\ [][ \A i \in Instances :
           ( /\ instances[i].live
             /\ regLast'.op = "unmount"
             /\ regLast'.inst = i
             /\ ~instances'[i].live )
           => LET w == instances[i]
                  after == [containers |-> usedContainerIds',
                            fields |-> usedResponseFieldNames']
              IN /\ w.id \notin after.containers
                 /\ w.field \notin after.fields
                 /\ Effect(after, w.kind, w.id, w.field).outcome = "mounted"
     ]_vars
  /\ [](regLast.reused => regLast.outcome = "mounted")

C20_Witness ==
  /\ regLast.op = "mount"
  /\ regLast.reused
  /\ regLast.outcome = "mounted"
  /\ regLast.field # NoName
  /\ instances[regLast.inst].live
  /\ regLast.id \in usedContainerIds
  /\ regLast.field \in usedResponseFieldNames

\* C21: no imperative operation lets an exception reach its caller; without
\* the API object (or, on the handle, without a cached widget id) it calls no
\* adapter method; getResponse returns the token or null, and null when the
\* adapter throws; isTokenExpired returns false when the adapter throws.
C21_OperationsNeverThrow ==
  /\ ~hCall.did.thrown
  /\ ~HelperGuard(hCall.impl, hCall.env) => hCall.did.calls = <<>>
  /\ hCall.op = "getResponse"
       => /\ hCall.did.ret \in {"token", "null"}
          /\ hCall.env.adapter["getResponse"] # "token"
               => hCall.did.ret = "null"
  /\ (hCall.op = "isTokenExpired" /\ hCall.env.adapter["isExpired"] = "throws")
       => hCall.did.ret = "false"

\* C22: a request that was sent carries the caller's idempotency key when
\* one was given, else a generated one when crypto.randomUUID is available,
\* and none only when it is not.
C22_IdempotencyKeySent ==
  vBody.sent
  => vBody.idem = (IF vIn.idempotencyKey THEN "caller"
                   ELSE IF vIn.uuidAvailable THEN "generated" ELSE "none")

\* The IP a chain of three headers gives when it is tried in the order
\* first || second || third
InOrder(first, second, third) == Or(Or(first, second), third)

\* The IP getClientIp must return when each path tries the headers in the
\* order xff (x-forwarded-for first) or not (cf-connecting-ip first)
ExpectedClientIp(call, xffFirst) ==
  LET Ip(h) == IF xffFirst
               THEN InOrder(FirstForwarded(h), h.cfConnectingIp, h.realIp)
               ELSE InOrder(h.cfConnectingIp, FirstForwarded(h), h.realIp)
  IN IF call.fw.available /\ Truthy(Ip(call.fw.headers))
     THEN Ip(call.fw.headers)
     ELSE IF call.init.given /\ Truthy(Ip(call.init.headers))
     THEN Ip(call.init.headers)
     ELSE Undefined

\* C23: the remoteip of the request is options.ip when the option is given;
\* otherwise the IP of the framework headers; otherwise, when they give none,
\* the IP of options.headers; the field is omitted when the source that was
\* chosen gives no IP (an options.ip that is the empty string included).
C23_RemoteIpPrecedence ==
  ipCall.variant # "none"
  => LET xffFirst == ipCall.variant = "result"
         chosen == IF ipCall.optIp # Undefined THEN ipCall.optIp
                   ELSE ExpectedClientIp(ipCall, xffFirst)
     IN ipCall.remoteip = (IF Truthy(chosen) THEN chosen ELSE "none")

C23_Witness ==
  /\ ipCall.variant # "none"
  /\ ipCall.optIp = Undefined
  /\ ipCall.fw.available
  /\ ~Truthy(FrameworkIp(ipCall.variant, ipCall.fw.headers))
  /\ ipCall.init.given
  /\ ipCall.remoteip = "192.168.0.1"

C25_EveryPromiseSettles ==
  \A p \in 1..MaxCalls :
    (lHasWindow /\ p \in DOMAIN lPromises)
      ~> (p \in DOMAIN lPromises /\ lPromises[p].status # "pending")

\* C26: when the endpoint answers 2xx with success false, the call reports a
\* failure; the failure object or the TurnstileError carries the error codes
\* of the answer, or the single code unknown-error when the answer has none
\* (the boolean result false carries no codes).
C26_FailureCarriesCodes ==
  (vPc = "done" /\ vResp.kind = "json" /\ ~vResp.success)
  => /\ vResult.kind = (IF vVariant = "throwing" THEN "throw" ELSE "return")
     /\ ~vResult.success
     /\ (vResult.kind = "throw" \/ vResult.full)
          => /\ vResult.hasCodes
             /\ vResult.codes = (IF vResp.hasCodes THEN vResp.codes
                                  ELSE <<"unknown-error">>)

\* C27: without options.maxTokenAge a success response whose challenge_ts is
\* more than 300 seconds old is not reported as a success.
C27_DefaultMaxTokenAge ==
  ( /\ vPc = "done"
    /\ ~vIn.hasMaxTokenAge
    /\ vResp.kind = "json"
    /\ vResp.success
    /\ vResp.hasTs
    /\ vResp.age > 300 )
  => ~ReportedSuccess

\* C28: a continuation of the script load that runs after the component was
\* really unmounted, or after its container was detached, calls neither
\* turnstile.render nor a callback, and leaves hasRenderedRef false.
C28_ContinuationAbortsAfterUnmount ==
  [][ (conts # <<>> /\ conts' = Tail(conts)
         /\ phase \in {"detached", "unmounted"})
      => /\ hist'.renderCalls = hist.renderCalls
         /\ hist'.lastDispatch = hist.lastDispatch
         /\ hasRenderedRef' = FALSE ]_vars

\* C29: a mount pass that stops at check 3 because the container holds a
\* widget iframe, and a continuation whose final check finds an iframe in the
\* container, call no render and leave the component ready.
C29_IframeAdopted ==
  [][ /\ ( /\ hist'.mounts = hist.mounts + 1
           /\ containerRef'
           /\ ~hasRenderedRef'
           /\ Check3Iframe(W)' )
        => /\ isReady'
           /\ hist'.renderCalls = hist.renderCalls
      /\ ( /\ conts # <<>> /\ conts' = Tail(conts)
           /\ scriptPromise = "resolved"
           /\ isMountedRef /\ containerRef /\ apiPresent
           /\ FinalIframeCheck(W) )
        => /\ isReady'
           /\ hist'.renderCalls = hist.renderCalls ]_vars

\* C30: the identifiers of a live instance are in the registries from the
\* return of its effect on, and a cleanup that runs while the component stays
\* mounted with its container attached removes neither its container id nor
\* its response field name from the registries.
C30_TransientCleanupKeepsIds ==
  /\ [](\A i \in Instances :
          instances[i].live
          => /\ instances[i].id \in usedContainerIds
             /\ instances[i].field # NoName
                => instances[i].field \in usedResponseFieldNames)
  /\ [][ \A i \in Instances :
           ( /\ instances[i].live
             /\ regLast'.op = "cleanup"
             /\ regLast'.inst = i
             /\ instances'[i].disconnected )
           => /\ instances[i].id \in usedContainerIds'
              /\ instances[i].field # NoName
                 => instances[i].field \in usedResponseFieldNames' ]_vars

\* C31: every call of turnstile.render is made with the options of the
\* configuration the component has at that moment, also when the
\* configuration changed while the script load was pending.
C31_RenderUsesLatestConfig ==
  [][ (conts # <<>> /\ hist'.renderCalls = hist.renderCalls + 1)
      => Head(conts) = config ]_vars

C33_OnLoadOncePerRender ==
  [][ ( /\ conts # <<>> /\ conts' = Tail(conts)
        /\ scriptPromise = "resolved"
        /\ isMountedRef /\ containerRef /\ apiPresent
        /\ hist'.lastDispatch.kind = "load" )
      => hist'.renderCalls = hist.renderCalls + 1 ]_vars

\* C34: the two registries hold exactly the identifiers of the instances whose
\* effect is in force: the container id of each, and the response field name
\* of each that has one, and nothing else.
C34_RegistriesMatchLiveInstances ==
  /\ usedContainerIds =
       { instances[i].id : i \in {v \in Instances : instances[v].live} }
  /\ usedResponseFieldNames =
       { instances[i].field :
           i \in {v \in Instances : /\ instances[v].live
                                     /\ instances[v].field # NoName} }

\* C35: the policy checks run in the order action, hostname, token age, and
\* the first one that fails decides the code: a success response that fails
\* the action check and another check gives action-mismatch, and one that
\* passes the action check, fails the hostname check and is too old gives
\* hostname-mismatch.
C35_FirstMismatchDecides ==
  (vPc = "done" /\ vResp.kind = "json" /\ vResp.success)
  => LET am == vIn.action # "undefined" /\ vResp.action # vIn.action
         hm == vIn.hostname # "undefined" /\ vResp.hostname # vIn.hostname
         old == /\ vIn.hasMaxTokenAge
                /\ vResp.hasTs
                /\ vResp.age > vIn.maxTokenAge
     IN /\ (am /\ (hm \/ old))
           => /\ ReportedFailure("action-mismatch", "action-mismatch")
              /\ vResult.hasCodes => vResult.codes = <<"action-mismatch">>
        /\ (~am /\ hm /\ old)
           => /\ ReportedFailure("hostname-mismatch", "hostname-mismatch")
              /\ vResult.hasCodes => vResult.codes = <<"hostname-mismatch">>

\* Action, hostname and age all fail: the result names the action only
C35_Witness ==
  /\ vPc = "done"
  /\ vVariant = "result"
  /\ vIn.returnFullResponse
  /\ vResp.kind = "json"
  /\ vResp.success
  /\ vIn.action = "signup" /\ vResp.action = "login"
  /\ vIn.hostname = "a.example" /\ vResp.hostname = "b.example"
  /\ vIn.hasMaxTokenAge /\ vResp.hasTs /\ vResp.age = 400
  /\ vResult.kind = "return"
  /\ ~vResult.success
  /\ vResult.codes = <<"action-mismatch">>

\* C36: for the same token, options and endpoint behaviour, the call in
\* boolean mode returns true exactly when the call with returnFullResponse
\* returns a success object, returns false exactly when that call returns a
\* failure object, and throws exactly when that call throws, the same error.
C36_BooleanModeMatchesFullMode ==
  (vPc = "done" /\ vVariant = "result")
  => LET other == VerifyOutcome(vVariant,
                    [vIn EXCEPT !.returnFullResponse = ~@], vResp)
         b == IF vIn.returnFullResponse THEN other ELSE vResult
         f == IF vIn.returnFullResponse THEN vResult ELSE other
     IN /\ VerifyOutcome(vVariant, vIn, vResp) = vResult
        /\ b.kind \in {"return", "throw"}
        /\ b.kind = "return" => ~b.full
        /\ f.kind = "return" => f.full
        /\ (b.kind = "return" /\ b.success) <=> (f.kind = "return" /\ f.success)
        /\ (b.kind = "return" /\ ~b.success) <=> (f.kind = "return" /\ ~f.success)
        /\ (b.kind = "throw") <=> (f.kind = "throw")
        /\ b.kind = "throw" => b.error = f.error

\* A hostname mismatch: false in boolean mode, the failure object otherwise
C36_Witness ==
  /\ vPc = "done"
  /\ vVariant = "result"
  /\ ~vIn.returnFullResponse
  /\ vResp.kind = "json"
  /\ vResp.success
  /\ vIn.hostname = "a.example" /\ vResp.hostname = "b.example"
  /\ vResult = RetBool(FALSE)
  /\ VerifyOutcome(vVariant, [vIn EXCEPT !.returnFullResponse = TRUE], vResp)
       = RetFailure(<<"hostname-mismatch">>)

\* C37: a notification of the widget and reset() leave the cached widget id,
\* the readiness and hasRenderedRef as they were; the cached id and the
\* readiness of a ready widget change only in remove(), in a configuration
\* change or in the cleanup of a real unmount.
C37_OnlyRemoveConfigUnmountChange ==
  /\ [][ (WidgetNotify \/ ImperativeOp)
         => UNCHANGED <<widgetIdRef, isReady, hasRenderedRef>> ]_vars
  /\ [][ ( /\ isReady /\ widgetIdRef # NoId
           /\ <<widgetIdRef, isReady>>' # <<widgetIdRef, isReady>> )
         => \/ ImperativeRemove
            \/ config' # config
            \/ FinalCleanup ]_vars

\* C38: a call that injects a script has its onload callback installed on the
\* global object while its promise is pending, and the callback is not
\* installed any more once the promise is settled.
C38_CallbackRemovedWhenSettled ==
  \A p \in DOMAIN lPromises :
    lPromises[p].kind = "inject"
    => /\ lPromises[p].status = "pending" => lPromises[p].callback
       /\ lPromises[p].status # "pending" => ~lPromises[p].callback

\* C39: a promise of loadTurnstileScript that is resolved in a document was
\* resolved at a moment when window.turnstile existed; a load signal that
\* arrives without the API object rejects the promise.
C39_ResolvedMeansApiPresent ==
  \A p \in DOMAIN lPromises :
    (lPromises[p].kind # "ssr" /\ lPromises[p].status = "resolved")
    => lPromises[p].apiAtResolve

\* C40: with maxTokenAge given, a success response is reported as success
\* only if it carries a challenge_ts whose age is at most maxTokenAge; a
\* success response without a usable challenge_ts is not accepted.
C40_AgeBoundNeedsTimestamp ==
  (/\ vPc = "done" /\ vVariant = "result" /\ vIn.hasMaxTokenAge
   /\ vResp.kind = "json" /\ vResp.success
   /\ ReportedSuccess)
  => /\ vResp.hasTs
     /\ vResp.age <= vIn.maxTokenAge

TypeOK ==
  /\ widgetIdRef \in {NoId} \cup WidgetIds
  /\ iframes \subseteq WidgetIds
  /\ live \subseteq WidgetIds
  /\ phase \in {"disconnected", "connected", "detached", "unmounted"}
  /\ scriptPromise \in {"none", "pending", "resolved", "rejected"}
====
